---- MODULE Spec2Model ----
(***************************************************************************)
(* Model of the Elyx event-generation simulator (simulate.py).             *)
(*                                                                         *)
(* One process constructs ElyxSimulator(cfg), calls run() and exports the  *)
(* three record streams; a second process may then do the same with the    *)
(* same configuration.  Dates are proleptic Gregorian ordinals, as in      *)
(* CPython's datetime; hours are counted in tenths of an hour; the         *)
(* adherence probability is counted in hundredths.                         *)
(***************************************************************************)
EXTENDS Integers, Sequences, FiniteSets, TLC

(***************************************************************************)
(* Calendar arithmetic used by the walker: datetime.fromisoformat,         *)
(* toordinal, weekday, isocalendar, year/month/day.                        *)
(***************************************************************************)
IsLeap(y) == (y % 4 = 0) /\ ((y % 100 # 0) \/ (y % 400 = 0))

DaysInMonth(y, m) ==
    IF m = 2 THEN (IF IsLeap(y) THEN 29 ELSE 28)
    ELSE IF m \in {4, 6, 9, 11} THEN 30 ELSE 31

RECURSIVE DaysBeforeMonth(_, _)
DaysBeforeMonth(y, m) ==
    IF m <= 1 THEN 0 ELSE DaysBeforeMonth(y, m - 1) + DaysInMonth(y, m - 1)

DaysBeforeYear(y) ==
    (y - 1) * 365 + ((y - 1) \div 4) - ((y - 1) \div 100) + ((y - 1) \div 400)

\* date(y, m, d).toordinal()
Ymd2Ord(y, m, d) == DaysBeforeYear(y) + DaysBeforeMonth(y, m) + d

\* The year of an ordinal, by 400-, 100-, 4- and 1-year cycles.
YearOf(n) ==
    LET n0 == n - 1
        n400 == n0 \div 146097
        r400 == n0 % 146097
        n100 == r400 \div 36524
        r100 == r400 % 36524
        n4 == r100 \div 1461
        r4 == r100 % 1461
        n1 == r4 \div 365
        y == n400 * 400 + 1 + n100 * 100 + n4 * 4 + n1
    IN  IF n1 = 4 \/ n100 = 4 THEN y - 1 ELSE y

MonthOf(n) ==
    LET y == YearOf(n)
    IN  CHOOSE m \in 1 .. 12 :
            /\ Ymd2Ord(y, m, 1) <= n
            /\ n < Ymd2Ord(y, m, 1) + DaysInMonth(y, m)

DayOf(n) == n - Ymd2Ord(YearOf(n), MonthOf(n), 1) + 1

\* current.strftime("%Y-%m-%d"), kept as the triple it prints
DayStr(n) == <<YearOf(n), MonthOf(n), DayOf(n)>>

\* datetime.weekday(): Monday = 0 .. Sunday = 6
Weekday(n) == (n + 6) % 7

\* The Monday that starts ISO week 1 of a year (the week holding its first Thursday).
IsoWeek1Monday(y) ==
    LET firstday == Ymd2Ord(y, 1, 1)
        firstweekday == (firstday + 6) % 7
        monday == firstday - firstweekday
    IN  IF firstweekday > 3 THEN monday + 7 ELSE monday

\* datetime.isocalendar()[:2]: the ISO (year, week) of an ordinal
IsoYearWeek(n) ==
    LET y == YearOf(n)
        w1 == IsoWeek1Monday(y)
    IN  IF n < w1
        THEN <<y - 1, ((n - IsoWeek1Monday(y - 1)) \div 7) + 1>>
        ELSE IF ((n - w1) \div 7) >= 52 /\ n >= IsoWeek1Monday(y + 1)
             THEN <<y + 1, 1>>
             ELSE <<y, ((n - w1) \div 7) + 1>>

\* datetime.fromisoformat accepts the string iff it names a calendar date.
ValidDate(s) ==
    /\ s[1] \in 1 .. 9999
    /\ s[2] \in 1 .. 12
    /\ s[3] \in 1 .. DaysInMonth(s[1], s[2])


(***************************************************************************)
(* Bounds of the exploration.                                              *)
(***************************************************************************)
\* Processes run one after the other on the same configuration.
MaxRuns == 2
\* Ids of one kind among which a repeated uuid4 value is explored: the first MaxClashIds
\* issued by a process.
MaxClashIds == 2
\* Repeated ids explored in one behaviour.
MaxRepeats == 1
\* Seeds tried with the example configuration, besides its own: 0 .. MaxSeed.
MaxSeed == 5
\* Seeds of the configuration whose first event is a panel: for each ApoB in
\* 90 .. 115 the least seed whose first draw is that value.
PanelSeeds ==
    { 0, 1, 2, 3, 5, 6, 7, 9, 10, 12, 13, 14, 15, 16, 17, 18, 19, 20, 23, 24, 27, 29, 31, 32, 44, 60 }

(***************************************************************************)
(* Role registry and fixed tables.                                         *)
(***************************************************************************)
ROLES ==
    [ id \in {"U-RUBY", "U-NEEL", "U-WARREN", "U-RACHEL", "U-CARLA", "U-ADVIK", "M-001"} |->
        CASE id = "U-RUBY"   -> <<"Ruby", "Concierge">>
          [] id = "U-NEEL"   -> <<"Neel", "Concierge Lead">>
          [] id = "U-WARREN" -> <<"Dr. Warren", "Medical">>
          [] id = "U-RACHEL" -> <<"Rachel", "PT">>
          [] id = "U-CARLA"  -> <<"Carla", "Nutrition">>
          [] id = "U-ADVIK"  -> <<"Advik", "Lifestyle">>
          [] id = "M-001"    -> <<"Rohan", "Member">> ]

HourRoles == {"Medical", "PT", "Nutrition", "Lifestyle", "Concierge", "Concierge Lead"}

\* The member's topics, in list order: (tag, text).
topics ==
    << <<"sleep",    <<"Rohan: Had poor deep sleep last night. Any quick fixes?">> >>,
       <<"apoB",     <<"Rohan: I read about ApoB targets. What's a realistic goal for me?">> >>,
       <<"workout",  <<"Rohan: Can we swap today's session? Hotel gym is limited.">> >>,
       <<"travel",   <<"Rohan: Jet lag is rough this trip. How should I adjust today?">> >>,
       <<"wearable", <<"Rohan: Why is my HRV down despite a rest day?">> >> >>

route ==
    [ tag \in {"sleep", "apoB", "workout", "travel", "wearable"} |->
        CASE tag = "sleep"    -> "U-ADVIK"
          [] tag = "apoB"     -> "U-WARREN"
          [] tag = "workout"  -> "U-RACHEL"
          [] tag = "travel"   -> "U-ADVIK"
          [] tag = "wearable" -> "U-ADVIK" ]

(***************************************************************************)
(* Configurations.  A configuration is the "simulation" dictionary: a      *)
(* function whose domain is the set of keys present.  start_date is the    *)
(* (year, month, day) its string names; adherence_probability is in        *)
(* hundredths.                                                             *)
(***************************************************************************)
ConfigKeys ==
    {"start_date", "months", "seed", "diagnostic_panel_months", "adherence_probability",
     "max_member_threads_per_week", "travel_week_every_n_weeks", "exercise_update_days"}

Cfg(sd, mo, se, dp, ap, cap, tw, ex) ==
    [ k \in ConfigKeys |->
        CASE k = "start_date" -> sd
          [] k = "months" -> mo
          [] k = "seed" -> se
          [] k = "diagnostic_panel_months" -> dp
          [] k = "adherence_probability" -> ap
          [] k = "max_member_threads_per_week" -> cap
          [] k = "travel_week_every_n_weeks" -> tw
          [] k = "exercise_update_days" -> ex ]

\* The configuration of the example scenario.
ExampleCfg == Cfg(<<2024, 1, 1>>, 1, 42, {1}, 80, 3, 4, 14)

Without(c, k) == [ j \in (DOMAIN c) \ {k} |-> c[j] ]

\* Well-formed configurations of one and of two months.
WalkConfigs ==
    { ExampleCfg,
      Cfg(<<2024, 2, 8>>, 2, 3, {1, 2}, 0, 3, 5, 10),
      Cfg(<<2025, 3, 1>>, 1, 11, {1}, 80, 2, 1, 3) }

\* Well-formed configurations explored.
ValidConfigs ==
    WalkConfigs
    \cup
    { Cfg(<<2024, 1, 1>>, 1, 7, {1}, 80, 3, 4, 14),
      Cfg(<<2024, 12, 16>>, 1, 42, {2}, 100, 2, 4, 7),
      Cfg(<<2024, 12, 16>>, 1, 5, {1, 2}, 50, 4, 4, 7),
      Cfg(<<2024, 1, 6>>, 1, 42, {1}, 80, 3, 2, 14),
      Cfg(<<2024, 1, 3>>, 1, 9, {}, 80, 2, 3, 30) }
    \cup { Cfg(<<2024, 1, 1>>, 1, s, {1}, 80, 3, 4, 14) : s \in 0 .. MaxSeed }
    \cup { Cfg(<<2024, 2, 10>>, 1, s, {1}, 100, 2, 4, 7) : s \in PanelSeeds }

\* Configurations with a required field missing or malformed.
BadConfigs ==
    { Without(ExampleCfg, k) : k \in ConfigKeys }
    \cup { Cfg(<<2024, 2, 30>>, 1, 42, {1}, 80, 3, 4, 14),
           Cfg(<<2024, 1, 1>>, 1, 42, {1}, 80, 3, 0, 14),
           Cfg(<<2024, 1, 1>>, 1, 42, {1}, 80, 1, 4, 14),
           Cfg(<<2024, 2, 10>>, 1, 42, {1}, 80, 1, 4, 14),
           Without(Cfg(<<2024, 2, 30>>, 1, 42, {1}, 80, 3, 4, 14), "months"),
           Without(Cfg(<<2024, 2, 30>>, 1, 42, {1}, 80, 3, 4, 14), "seed") }

Configs == ValidConfigs \cup BadConfigs


(***************************************************************************)
(* random.Random: CPython's Mersenne Twister.  The stream of 32-bit words  *)
(* is fixed by the key the generator was last seeded with.  The state is   *)
(* <<year, week, seed, n>>: the key and the number of words drawn since    *)
(* seeding; year = 0 stands for random.Random(seed), any other year for    *)
(* rng.seed("wk-<year>-<week>-<seed>").  A draw returns                    *)
(* <<value, next state>>.                                                  *)
(*                                                                         *)
(* MTWords holds, for every key the explored configurations seed with, the *)
(* first words of the stream, each without its lowest bit (word >> 1): no  *)
(* draw of the program looks at that bit.                                  *)
(***************************************************************************)
MTWords ==
    (<<0, 0, 0>> :> << 1813382118, 827307999, 1627694678, 1911784257, 903170602, 86939546, 556019485, 2073320061, 1097954097, 1043521778, 869589436, 1971893209, 1683194652, 1782095536, 651359108, 2078334659, 1023484162, 768905175, 1252803391, 1914826684, 1950157577, 469102188, 1083806779, 299088013, 605242169, 300101783, 1623077180, 203647506, 1327937310, 1716703952, 537958267, 2120122977, 1953665205, 1143671689, 2110515738, 1514345872, 1739928271, 1292574851, 1937386629, 315597204, 666036844, 212092662, 1567301757, 158360665, 1930240526, 1826378634, 1468844309, 709093135, 1013918763, 1202190735, 216254202, 759761091, 932376913, 679027242, 1311869788, 1375298783, 1960676318, 439112612, 2075771360, 1186535554, 1024370691, 950676745, 1858238927, 1119598413, 559402977, 133744385, 1728784093, 1972388339, 1178322771, 1967083172, 30154324, 200299806, 1545554038, 1804082152, 856467032, 1525257611, 1771341094, 1685877224, 1434848064, 1342748146, 2454178, 1314038990, 1059950399, 1778252349, 1863162773, 715402257, 523794613, 1568261309, 698371045, 1511060853, 1869322740, 135257702, 410313446, 1969283239, 1218720039, 476105495 >>) @@
    (<<0, 0, 1>> :> << 288545018, 1222356005, 1819850095, 1722851096, 1640193506, 135520872, 547756574, 253228484, 1063938749, 1634154402, 965274705, 1014138928, 1399285261, 815217483, 1693770507, 450874518, 201561926, 1047664193, 60875732, 1918383731, 1794791897, 837108038, 929360195, 1304463163, 1636984002, 1647458476, 4522707, 1494289708, 956461718, 571940513, 1549495423, 1721909018, 491263128, 1269492320, 2029953361, 219531151, 1935800732, 681674953, 65691502, 47936369, 54644572, 1394889710, 1162674447, 19767455, 2016807461, 1892435308, 818629863, 1474212860, 465143663, 2080998945, 906488442, 1558756592, 62364611, 1133075550, 476079230, 1640035399, 940356432, 2016845815, 1064748682, 1187256901, 500545052, 742385984, 495782127, 1453521182, 469828692, 1634122829, 986990922, 2044929403, 622301269, 1989657836, 46148794, 893739613, 1798685007, 1967674488, 1194976547, 1980384858, 1379316649, 214748959, 399230659, 1351525069, 2131470744, 1554002934, 1846721118, 636493528, 259609208, 1595895301, 714457467, 1923233514, 1549375956, 2090043303, 1527272699, 1075459163, 2010990846, 2077068247, 906467884, 1090314491 >>) @@
    (<<0, 0, 2>> :> << 2053067961, 1853513164, 2035444029, 1823332324, 121443151, 196676841, 182261230, 775365019, 1794220178, 363104290, 1580483516, 1737232767, 1438235079, 1833595380, 661718012, 540271020, 1301255191, 455736430, 1303096808, 76739130, 1248126120, 1462965050, 340124608, 2146879770, 924856009, 1371106759, 845103140, 1725866985, 1552656621, 1847360140, 2136358747, 1093214019, 2038811261, 798993397, 1168611296, 2009425545, 955317097, 1078181303, 576042599, 1935329011, 77146899, 1870529061, 58937378, 781715036, 998351952, 2001125236, 683898649, 1949378517, 816075831, 909697619, 1915103274, 1898514201, 1129045480, 353236198, 1203686844, 381041855, 507071164, 495215473, 51234840, 379503271, 698239130, 372779023, 293555409, 1095574634, 1095697368, 772431397, 2144656632, 1103242656, 1448434127, 1202355303, 390505925, 2137127769, 1918930265, 956999483, 1711028898, 890499183, 1577115623, 1128214282, 1946895024, 1950941809, 1638284111, 782232769, 1695970142, 1274500530, 759751757, 777145085, 2106631151, 1844617189, 2065666536, 957281565, 346141401, 2050703251, 1619211417, 858700314, 1535774854, 1586110420 >>) @@
    (<<0, 0, 3>> :> << 511025150, 1272686665, 1168723365, 280080820, 794472658, 1966976506, 1296908414, 1018022223, 1343724115, 1247370366, 140722156, 1300515102, 28278034, 1951672655, 1798451156, 1007668780, 556958498, 1182801014, 503221913, 411767315, 2138131003, 1540063683, 1009883194, 1161732570, 1796287290, 1180323947, 1022960728, 852840001, 1372388373, 1849030896, 323446306, 498048707, 1363352895, 325606562, 1864113090, 1988216538, 1123523096, 837382728, 1591826252, 32527369, 1441845164, 1669098783, 137506472, 342308754, 1628287049, 2056209297, 1269376693, 91888745, 646967375, 1675201516, 66597223, 1768604193, 1858705584, 578600102, 1015220939, 1277214859, 1543662608, 1976021287, 1887236124, 832383095, 1533581380, 1692450872, 1978044335, 916835693, 848177449, 1563638617, 1719938488, 1238904066, 954816441, 2070375557, 2009157188, 288083023, 1887351790, 784947489, 209281550, 77065967, 291990909, 1062754042, 465975918, 554010463, 2073352804, 1443197553, 936650469, 1672830881, 1345716944, 1836582957, 646448839, 904409541, 1089296008, 1789878482, 828641474, 1232704445, 753574530, 1146977644, 1256437082, 875262509 >>) @@
    (<<0, 0, 4>> :> << 506909419, 651328766, 221547363, 1548801510, 850528596, 1028383521, 332800429, 193488809, 142840088, 42557065, 862410139, 1179831475, 1971293444, 621429685, 1718958335, 2126062121, 1643174188, 126373091, 476587126, 1117420075, 1152511543, 773620057, 594171453, 1674490825, 370794245, 1775693413, 228026887, 562038512, 460421413, 2024989799, 1991738756, 55060788, 1780092246, 1375868377, 1732272728, 558891521, 1718948642, 583573871, 415399827, 353944514, 665397712, 621998643, 1346419848, 1862559056, 1571731906, 2063566337, 1835343363, 1822202736, 1889894600, 799708089, 186226021, 1814171051, 1301057018, 724566290, 1442467902, 833077303, 1086527460, 534451862, 381801489, 531120420, 1017022242, 601290259, 191869507, 2028465353, 2007013227, 1756390120, 1858613095, 2023374598, 1176045508, 1804879867, 644772819, 15486209, 1951784095, 626939957, 1229148346, 1513776116, 1894761852, 669504193, 1821160813, 1643271241, 1091721361, 419028113, 888942360, 909955567, 1286154750, 618912461, 925657829, 969314845, 346433361, 500847288, 655222172, 557605168, 1745028706, 1712383812, 92853908, 174108232 >>) @@
    (<<0, 0, 5>> :> << 1337671202, 548563996, 1592975436, 769949150, 1707665179, 1482723311, 2023896565, 1807131032, 1588920084, 1400227407, 1980677840, 1138251922, 62288247, 1804633855, 999917037, 1666358331, 2025843130, 534836507, 1393662250, 111354012, 1934669085, 336835654, 243107963, 798420159, 1007318097, 1864972416, 529511124, 817671399, 1167717556, 218988355, 1232529314, 535433644, 28162508, 1570205072, 465423697, 876497718, 600183822, 391004504, 1967836688, 1862854222, 1644382882, 836310264, 342747439, 1636222395, 1711860139, 154472228, 298000757, 1326986382, 1325969189, 955277375, 272084531, 283985084, 3811480, 2088078428, 1871327445, 11409881, 449804157, 1661279829, 462742284, 2061857247, 2109733275, 356173996, 1873481408, 357522694, 621278126, 673561181, 2064758265, 427111572, 1157973579, 1881451079, 1455629858, 1343745360, 439760661, 390130486, 2020730571, 2079959834, 1483142283, 422794525, 2075681043, 2072528715, 1919295641, 822966187, 641644280, 46321678, 775649477, 891005384, 356387904, 2009599433, 312892466, 566531838, 139886464, 712652084, 647163737, 1755353794, 1295168855, 1258728775 >>) @@
    (<<0, 0, 6>> :> << 1703684863, 1232269300, 1765132875, 173021876, 1041603935, 1636848185, 561827868, 79076251, 970052, 312626403, 1423392026, 1259465703, 1009863313, 2073433619, 1631509110, 1578048864, 801355800, 685875496, 1653862716, 47007984, 585614674, 1049778635, 1722100395, 425431367, 1567286881, 1873695127, 889072048, 1955439976, 1156001659, 1158031488, 1464694964, 202314885, 414431871, 1209931108, 1188879510, 1502215743, 1728990731, 1565274933, 570202118, 1423567057, 1725213867, 1310066017, 1472507821, 189212739, 1813082492, 912034863, 720656885, 2126516272, 200005011, 777690976, 1718594053, 880349900, 1728255142, 537916030, 956086375, 1502424569, 201391821, 1622571746, 423402267, 1504843148, 1363477845, 1710279306, 625311940, 209489009, 2043057970, 98103704, 1263944007, 1938670465, 431374310, 1777910707, 1407469349, 1959956441, 773909218, 1045184728, 2003037914, 1788259244, 1953160433, 416017009, 1105204948, 1236698895, 1384207413, 2083129034, 1498751066, 1916432387, 1729808642, 1081667329, 2096749357, 1967725685, 61035741, 1360384619, 776049960, 525909523, 1292242363, 922749248, 653531687, 767466887 >>) @@
    (<<0, 0, 7>> :> << 695425564, 2035525362, 323946139, 847876999, 1397871144, 103694312, 155555737, 1763673106, 1150797845, 202142728, 785310972, 1251527726, 124551738, 1953574602, 1089709946, 461060838, 80521324, 184570285, 931247021, 898017869, 150013383, 516819858, 194804716, 1183364967, 911648019, 126938843, 1775651415, 1214302567, 265862673, 2034632750, 479402028, 1354258844, 1347402586, 1251976312, 2035189460, 132847736, 1239319143, 1257440634, 851864842, 106492238, 2096491878, 474769608, 100035544, 1195428767, 1843546981, 285990742, 621931211, 900094241, 309785426, 1161114102, 252956896, 1226027820, 662459676, 1203143340, 1752618007, 1464589642, 388106949, 221310449, 1248976840, 1226652084, 1372056227, 403449954, 799717633, 209230569, 1176272276, 1529246225, 134838299, 1211971681, 127992538, 1329312984, 442292975, 1066042002, 1461147818, 1141860529, 918247487, 1669086092, 674625911, 999872392, 1257484520, 1983075267, 973206040, 776492204, 643744726, 533492027, 1705916947, 386046157, 1501079114, 1674671376, 524193277, 175782303, 1233565527, 644780074, 1127850896, 1063254275, 1879343459, 737608422 >>) @@
    (<<0, 0, 9>> :> << 994300727, 1316869687, 801681272, 573666814, 297511125, 399743235, 1860927402, 1453081007, 13819176, 726548507, 1079716291, 995834408, 1929080206, 1298580838, 173548139, 717311089, 1190286755, 2010873343, 1324245884, 1503449659, 87822983, 1563780918, 813938401, 363814224, 1510712627, 2031982178, 970707528, 2042839338, 1557066026, 907497995, 337492435, 361696322, 511127318, 110238987, 238258004, 284381751, 1087204509, 1872016089, 1983909359, 2128121044, 1267935469, 135994927, 1662602165, 1478415232, 823913971, 1695642211, 1602227270, 1905384853, 218333442, 1973441756, 625300169, 440148501, 1447910790, 481682887, 1558442522, 1702945195, 905712812, 1910350041, 188360902, 1659103427, 572805968, 1957172096, 450735624, 851569418, 603838938, 733708751, 1738410994, 92759955, 428386956, 1522137954, 1903528932, 11320672, 1888439549, 883018850, 117659242, 1923743144, 813502026, 1816355560, 1055942916, 298806941, 50429702, 508380922, 912090744, 1581049601, 1946501991, 1826932241, 240617533, 2070201209, 1281716257, 8320690, 260344677, 1641457356, 1242749425, 424493833, 1922649511, 1830077807 >>) @@
    (<<0, 0, 10>> :> << 1227077737, 69975896, 921032232, 1036293302, 1241441628, 31852435, 442592576, 993384067, 1746594092, 1055051037, 1768643643, 595971074, 1403321570, 1740790593, 344090359, 73881116, 1118128939, 1052450780, 703886753, 163400635, 536863768, 2045261763, 2046158729, 1601049331, 2140089847, 775582255, 95684110, 902793954, 1847181761, 297832946, 1295341972, 762532116, 819492612, 904657537, 609065479, 1775643055, 1449475974, 563330295, 981037430, 375102230, 1472876335, 650913279, 1421304153, 778650543, 285568389, 981246309, 1648919144, 1846941462, 2109716398, 514065249, 2081745231, 944136411, 1317109320, 805828192, 95048977, 1251835992, 8708355, 506062961, 287703808, 418659037, 2020786984, 1953325873, 650388103, 1151792474, 786291687, 1657976511, 1928861759, 515787516, 675091120, 1431705761, 1178930265, 967705525, 936369355, 1009261423, 139573932, 1402258995, 1255303467, 697262774, 1812622010, 1077858594, 335907070, 1808557287, 481678365, 2082594524, 886632031, 511904283, 79295566, 68175492, 1066447889, 646745296, 1756604829, 1302829399, 1412810039, 154693489, 1145647591, 1984849719 >>) @@
    (<<0, 0, 11>> :> << 971477686, 1859167398, 1202102035, 1840099285, 1984727110, 1677652994, 999975904, 970302523, 1090580830, 1836196520, 1261399321, 407811516, 396555068, 1726362772, 1099315425, 1021693763, 1352662844, 1318466550, 1702904873, 399804946, 202128585, 959051491, 651549248, 304502734, 194713490, 1156835503, 1738698399, 1912077536, 1489147795, 1362476977, 89937331, 1278690149, 2109244314, 850747065, 2071801564, 972799061, 1404287947, 1586809769, 1321910847, 1396016796, 338215987, 1338158163, 32213826, 1786065640, 1134690139, 135645637, 127885033, 76563762, 408469125, 1888851399, 519568668, 1287670034, 64601866, 1670975072, 996291671, 700709641, 946033372, 1269075729, 1809098486, 419449461, 1114810544, 501750179, 1375015974, 631685690, 1073254676, 9865043, 1422599543, 182511983, 982108443, 1406175816, 597350286, 873550681, 2142450372, 1183838445, 2138231513, 2000778783, 1804349165, 178678101, 1520009598, 545449555, 677052670, 1627771233, 493203763, 1101411389, 620708568, 63891757, 150803808, 1209338791, 1645590712, 231771287, 859852040, 231505394, 1818024494, 624709209, 830031501, 143508821 >>) @@
    (<<0, 0, 12>> :> << 1019132783, 577662261, 1411911446, 1136299686, 1431105596, 751158381, 306231922, 819567871, 23322617, 2140229949, 804779144, 1036244209, 588513901, 1381709766, 1740209196, 988311219, 1483036430, 1856165774, 1291619160, 488862552, 1198704003, 3577443, 1420176220, 1340529904, 312035360, 2100325867, 945010468, 789533884, 348466428, 729457621, 1945562163, 451511994, 126324276, 1237411384, 1758402834, 428709849, 160222960, 1102775500, 1475204238, 1759325703, 723701119, 1463373183, 868902551, 1713425711, 1809047471, 187583509, 39952429, 1973337145, 130534135, 1760192857, 1965019790, 1421731346, 1092910081, 479412797, 195373735, 2124831833, 2119854101, 910123658, 2033050727, 952931272, 241651259, 1419195850, 908829278, 2085896844, 290059540, 1158547345, 671176026, 1894142936, 1334557888, 1198650582, 351165390, 2096275069, 1496440658, 1901757808, 110280401, 1192176288, 367679456, 1089306077, 1751697368, 179535632, 860107359, 1304465315, 899452500, 1434838909, 1279837932, 1008437098, 1023852013, 1308454055, 825882243, 1162108979, 65486191, 1375952774, 1559776274, 177519278, 2077602132, 412029966 >>) @@
    (<<0, 0, 13>> :> << 556216509, 624397381, 1471580326, 1953222564, 1469054726, 1722291873, 1823935510, 1911255644, 398839630, 1400180230, 495120841, 1430622599, 316023504, 1866659272, 483533712, 1376445028, 1576303686, 402382974, 279630350, 152099537, 1140989743, 1816321494, 459362915, 1599214263, 632770568, 64368630, 926811701, 271220032, 1798853660, 1469224165, 1306533648, 2143203168, 30993317, 2132397925, 592355132, 1791820562, 315058021, 182430319, 1871069711, 1705337946, 1738902572, 1907721129, 1730972403, 563607820, 1774606054, 968656637, 1599338780, 937946014, 2038656512, 299589319, 1704609277, 1883374840, 551276186, 763939707, 1825230129, 502570972, 1045363872, 1928957430, 1621358420, 1180477522, 1211478406, 2107586763, 922510971, 1440378126, 782119168, 1908317084, 923036298, 1371478932, 673797401, 1407143127, 252028786, 742984737, 1760171313, 1277055199, 1714247367, 1361042371, 2116734226, 564551571, 1483745096, 962883276, 1190192033, 1312518057, 1607201424, 2119898071, 289596247, 945708145, 1453463237, 1565406149, 952194152, 1150999571, 379318080, 629873264, 435137386, 385284241, 1122475317, 765037772 >>) @@
    (<<0, 0, 14>> :> << 229412538, 1322589170, 1508790917, 1621790936, 1400249568, 1131964183, 2019391389, 530289419, 582215512, 1578683594, 549273730, 624952099, 1576380487, 155962878, 1414010649, 965812606, 650661721, 1002055269, 1469379452, 1874370926, 851850161, 845699719, 1669704159, 1951897723, 254261141, 565897242, 479460331, 1870058585, 1935877235, 677870540, 768869312, 1734846375, 559209744, 774533165, 1727180909, 1358773925, 1356487939, 1108678606, 321485951, 345853286, 1183977892, 1429004468, 1425927115, 591266698, 354223676, 22774702, 1399511429, 150188114, 264197070, 1277375817, 723844212, 59673152, 178687832, 588527890, 438992242, 1834120862, 2100238001, 820080587, 866887169, 1252595661, 2126937881, 2006406561, 941989508, 1925028851, 1304663355, 202710382, 1873884310, 1376243281, 1475071073, 1903003136, 239511980, 1242921526, 1265048620, 1368842817, 1360923468, 782237320, 389119811, 1857245612, 203307633, 1604178333, 1878605647, 1045025206, 1103337274, 1443645442, 416265457, 581604673, 971953049, 1340281386, 468554945, 1040968739, 1714211432, 604141458, 1074772886, 546793092, 219962515, 260242024 >>) @@
    (<<0, 0, 15>> :> << 2072841726, 448781869, 25028263, 1119519504, 1580529970, 77688323, 339329729, 1960682293, 2118147849, 513141176, 36250942, 118000384, 1888693112, 1728454532, 1463189418, 316213429, 1841128748, 1492022816, 2147089014, 788754710, 514784441, 251534406, 726016459, 1001435570, 1520835752, 763944347, 602544588, 842405554, 565463070, 739464395, 490935638, 2007973565, 1842191137, 443169376, 1878044476, 762717380, 1712867296, 672958665, 479728968, 656353643, 1986075084, 1560411703, 1098158604, 902946619, 496897360, 1239419221, 978257851, 1805340402, 901675398, 1051453897, 169563789, 990219427, 1212665949, 1715923449, 773017771, 943394825, 1223240416, 676790434, 1997626586, 1490409003, 1386353696, 967630889, 869946532, 1668355939, 1854511016, 1738656944, 2137117563, 141388188, 1052817869, 2059889916, 2029425327, 1801339962, 40265425, 420285306, 301330871, 1146622043, 369784882, 1318658836, 2014478793, 1685718862, 1482805138, 1812679571, 1544217570, 37325892, 615505624, 1138135551, 1062972355, 325751156, 1904957002, 1837299312, 214481299, 1915196696, 249584362, 849057854, 101825449, 158029803 >>) @@
    (<<0, 0, 16>> :> << 776364245, 1007647799, 1031824378, 611889898, 895398957, 486715754, 959408206, 12570483, 879428330, 1834244435, 1412412507, 1526864003, 555887707, 510797587, 1363643372, 477664969, 21750514, 636937985, 648633904, 1750008393, 719543061, 1431759708, 304836411, 2043719736, 1596469938, 1293016955, 665952403, 47634942, 1694884278, 473199468, 2053434674, 1294484952, 544400015, 43751290, 1918864050, 330626195, 1734386871, 1301478415, 1433271320, 1354967683, 58775233, 997997874, 980945471, 1285671635, 1345932689, 1510845236, 636139736, 2116194631, 481756842, 1680731078, 665269362, 776922203, 554555537, 902547134, 1691841767, 184555685, 746853032, 1061485708, 908650313, 1109697620, 1380879985, 369937897, 2036638147, 1208269780, 629259945, 1242867998, 94503471, 607305788, 2091400771, 179540584, 1787931677, 2147359259, 1697223336, 13275184, 1123934252, 801157583, 504229992, 1052023260, 331806420, 663302320, 653346317, 679480801, 989737240, 974093328, 141158303, 352737222, 1501703580, 1035632253, 1563115674, 1824920994, 28062834, 955915015, 1809101155, 1856053347, 1055556774, 30038836 >>) @@
    (<<0, 0, 17>> :> << 1120951904, 889418965, 1732355248, 651596995, 2062646827, 785170443, 621965773, 375140255, 1645203198, 1514282074, 1512300647, 1160039287, 1420309302, 597594261, 236571186, 1970301280, 57846291, 534515347, 825001161, 1750598790, 1602871480, 901012039, 541990009, 1846202165, 1077183523, 1723084974, 681686671, 1375516551, 1817475122, 1469812419, 2029788476, 1555363331, 862409981, 295367921, 2144148618, 1183659519, 133558012, 300393631, 1745064528, 1700000991, 1879727872, 422120105, 324088519, 1895809493, 1515197067, 1144301702, 1200211148, 1721839457, 2051250314, 1472810312, 450993058, 710894572, 1159562478, 265215086, 1895060053, 1536715847, 1371754960, 148559718, 664000942, 879768966, 175801288, 1089393901, 2018153687, 1844116329, 1018118709, 1374766158, 2139594176, 1288367189, 304099019, 1465896137, 1744195350, 877620843, 1746716217, 1086777193, 1975631316, 722375179, 38298899, 929392414, 799278046, 1227722596, 110958307, 1926033836, 1614982500, 1586748025, 761587335, 108009108, 2060521765, 1024859577, 804939176, 1245705553, 1662957492, 11076371, 1863561989, 870714281, 513133851, 251447960 >>) @@
    (<<0, 0, 18>> :> << 389263331, 263744238, 1420411281, 963845475, 718461490, 514314306, 425072049, 2044217268, 1051226185, 1349022938, 1060931397, 392933977, 1030303689, 634522496, 984258560, 1904496189, 568074508, 421160094, 545033346, 1931089422, 1485801203, 253403028, 696725605, 1121213901, 1449166134, 1637337746, 1690443733, 374375286, 1859603888, 2076932023, 2027285577, 1741782266, 503709193, 362985160, 509805601, 429981427, 1578026171, 784981948, 1235969559, 1090366537, 433511454, 1740564801, 1455145686, 1915041764, 1875290584, 1623714591, 1794837674, 1060138904, 464063022, 1538222042, 641989045, 569074213, 14308534, 736036447, 2095256109, 870578009, 473392441, 1657416381, 1561444518, 871723000, 1155125636, 742848657, 1274451136, 1230953671, 1131156470, 584434442, 1772809897, 578908059, 1288340188, 1521984705, 651093116, 1185088795, 246595984, 604144686, 1025219256, 1219545263, 1982027310, 1075366908, 311819554, 1065222915, 1468736986, 1705289242, 1355302597, 1703563647, 344158614, 407697477, 444180711, 1389955033, 1473702391, 1732235690, 938423352, 282111291, 874045812, 1102690049, 1031524069, 1232097934 >>) @@
    (<<0, 0, 19>> :> << 1454116651, 92886839, 1685584291, 1922880453, 1117692567, 259176457, 1098420064, 428417236, 845109257, 745539398, 2140648066, 1136446039, 621406487, 1255646770, 318385473, 1277751914, 560661973, 231214908, 559284614, 884476616, 703015303, 2078780726, 575334152, 1792094564, 231163590, 1660649428, 699005360, 1926725434, 668007162, 49092809, 1222433617, 1326293502, 432999128, 1887950565, 152015471, 1976544760, 434977171, 244580305, 1164886605, 978408533, 834430139, 1859924069, 1575116072, 158273021, 1724557219, 211508823, 889997954, 36083300, 213370563, 1243601946, 1563357105, 908771860, 1622774226, 1831366650, 850539521, 945539950, 1413665497, 2124316998, 642206657, 1225647506, 1964718770, 1078683075, 1790586618, 340417527, 1700727635, 1368103393, 2048516898, 872722465, 500022865, 1663640189, 1170919615, 1238237037, 1570620671, 231322274, 1721152831, 445230065, 838120155, 411271930, 297519918, 289168081, 1345006182, 1059359712, 224716685, 1175136375, 1514748760, 983696501, 14935520, 2055083256, 976031023, 1945425840, 1030264876, 1275890381, 257265834, 1117067171, 1031207511, 1770788515 >>) @@
    (<<0, 0, 20>> :> << 1944846388, 1552200962, 1473719581, 1689380848, 1646066085, 1889707552, 1942648586, 324710872, 557975189, 1447425003, 1365210904, 1823944047, 1943356091, 218005042, 1872885721, 703143429, 1230380705, 1944396167, 363736680, 57939200, 883739050, 873468054, 2134250881, 161078798, 221722972, 268601193, 685346102, 1018778038, 2040193451, 1246969728, 965080782, 884724237, 448077993, 429101928, 680546119, 1342979494, 1951280611, 1463116372, 720628543, 705966310, 917773948, 199123878, 1347940779, 1112073567, 1729980761, 1807416009, 1056805876, 869586990, 174946867, 443118859, 1230958990, 521070554, 75370560, 433396876, 202990833, 179854897, 408746756, 544221516, 1489147236, 1641601459, 608752397, 655118769, 1482300183, 551436999, 350790258, 1339937564, 252752139, 1944949638, 50132419, 574566435, 1515658985, 502424517, 1844930337, 1806389763, 471728317, 1232507651, 510176343, 120285888, 27874527, 1715987091, 1384822968, 1326442019, 645847283, 600002836, 293931030, 1492028864, 1389150386, 721249217, 1287917995, 1548965483, 960759589, 1946703941, 328593525, 1980903841, 1371534801, 587986645 >>) @@
    (<<0, 0, 23>> :> << 1986132998, 1673711575, 2037115399, 622591254, 1916486003, 1781644014, 179423724, 36671725, 1271368787, 658727549, 909990628, 814293600, 1138355335, 768970614, 279823433, 1558975055, 412310753, 574198346, 954714481, 30227908, 474678015, 1331784635, 977175829, 1936295813, 53186663, 227418003, 184198446, 2107270754, 1524730996, 1069964136, 904623979, 42046783, 1100872961, 1347902066, 1576701989, 926196329, 770938807, 1655225194, 123597416, 441580072, 1681699512, 75826944, 1265133055, 792648344, 1412856794, 369218185, 1333569005, 463953709, 2084638027, 1578852683, 779090998, 1214465865, 1631629323, 1847144574, 791742452, 2079970113, 1228461111, 604031239, 1418481902, 2092992265, 675149770, 1230477185, 184116920, 1748643424, 1018049897, 381461256, 1541708576, 1037415390, 1268324660, 1699713167, 960894909, 1451106817, 1379497263, 351295738, 390904767, 1715851761, 383411619, 1145868677, 694522732, 1446048211, 1752074987, 1116836538, 420064666, 1250475216, 245459976, 176796180, 211750907, 915133949, 83608347, 1219792422, 591770163, 2018836331, 1230125661, 602542976, 1762360760, 1266936535 >>) @@
    (<<0, 0, 24>> :> << 1529744916, 822187008, 1803456205, 1251507820, 392113098, 468727357, 2143795630, 359337642, 416816874, 363727301, 1440718274, 1463834685, 197110241, 1515877043, 1627227771, 2144784433, 324914828, 1731695757, 1517336122, 608535766, 1555743075, 1980366037, 1644849614, 27298078, 947851506, 1004507612, 1859232053, 1548397518, 2121518310, 1364032065, 248235718, 60495349, 1110022435, 362176166, 2057634731, 1055080271, 1587311601, 1815085741, 953927910, 1464267284, 654125618, 1073224061, 2046618960, 2137023758, 182790359, 1475815281, 1633281457, 545264611, 1810875801, 1312906240, 338659301, 1462873775, 701949306, 2062082033, 655751741, 159979312, 1164121133, 1393679500, 788120859, 1418964775, 1919186201, 71423627, 1985632570, 458979180, 678966371, 727846097, 1921525180, 1595603404, 149487259, 667391684, 208101949, 528237600, 1428356460, 1280902505, 1715992135, 328418514, 1759112142, 1820436963, 2130256513, 1051284704, 1846249125, 610188307, 572115730, 1207443174, 1595118794, 588136068, 1985678939, 425365372, 200993235, 1237745853, 1061773374, 1685078180, 331308623, 1401934096, 307305809, 696338941 >>) @@
    (<<0, 0, 27>> :> << 1392637168, 1030538552, 1506179629, 595322101, 2055242784, 614128442, 421772464, 158804329, 140379362, 546330122, 1770079347, 1158704351, 715255189, 543125954, 799668608, 1791327404, 1749911032, 865224818, 393708423, 532229801, 1953526043, 515030472, 1054778449, 1763818171, 153195497, 1567101344, 1970987047, 1369159962, 1230504941, 1404959384, 169075946, 1311674221, 1800835635, 913138126, 1663902661, 897447847, 1589501443, 113198410, 1412031069, 943781195, 2131818244, 750998400, 25992148, 1814661337, 2092574688, 1752472974, 1380290994, 1027594077, 543182287, 295339977, 1315213435, 2019079400, 725489327, 1310011088, 1396539303, 488491232, 1512359056, 1749161346, 1125783205, 302733624, 212038999, 2095327168, 841686654, 1614791171, 648617260, 1957191027, 1609348043, 1709022385, 1999794414, 80691570, 1665702735, 1459933718, 1139205862, 182355512, 365463596, 986923584, 1519429086, 325593752, 569206483, 1160250573, 2141677291, 109361170, 371319938, 2094839932, 2079275757, 1396531541, 32317331, 970812628, 1674416435, 324738487, 743796918, 1910556938, 1232819220, 1234079365, 892949405, 139552035 >>) @@
    (<<0, 0, 29>> :> << 1177076704, 163457879, 742668188, 1285335775, 1814303894, 1300815750, 619758287, 186255415, 1095957593, 1991276978, 738335539, 843779584, 892266427, 40055201, 2091345844, 69458351, 222764240, 1819821283, 954993035, 1400582453, 482770568, 1724588774, 750688482, 183654383, 2144778053, 1069210608, 707164137, 1970218018, 1305192860, 1164512185, 901120359, 1795468223, 1568637200, 428083079, 960370831, 2098280762, 366008072, 471259979, 931820401, 1683910140, 876302440, 1447991643, 1702348049, 1468418649, 1208188148, 1124205640, 421768543, 1167436932, 1447071575, 907162766, 640756320, 597591388, 1099277142, 1611659668, 472137712, 1758252920, 882088555, 2058634013, 1688165106, 1014678620, 1107465546, 308549808, 1615601078, 659461675, 1625085799, 642756406, 1260773608, 1520345779, 1385471277, 1012327286, 853166788, 1763001649, 1327041832, 1822020324, 1669106782, 1922580672, 212995314, 1569942252, 2013544834, 1910513887, 788636388, 1841379537, 298740415, 567115708, 322123022, 1478687598, 731596044, 1722182343, 148747407, 1185640489, 854397981, 350712118, 891395941, 1342569641, 1407345888, 914832828 >>) @@
    (<<0, 0, 31>> :> << 26367329, 1008411487, 241374706, 1640627847, 843611813, 302484307, 1468587352, 92917777, 297836500, 2040683901, 241470715, 1149359332, 497791772, 1527956802, 1626917485, 299770760, 316541698, 2108215940, 1590544943, 71115286, 1421992068, 130174667, 293300147, 496432111, 1150324846, 1572760707, 961537802, 1129725410, 885987519, 440081648, 2139631776, 1273632751, 199955196, 253721325, 43736630, 1654094768, 2018209243, 1906254757, 865319545, 733437042, 426270425, 442226345, 709334058, 841684000, 783605444, 1281739943, 2051089220, 529490714, 451685121, 1554723151, 465845107, 894078550, 1256065211, 1423188359, 1175492747, 128962770, 2048147645, 110731740, 1801057701, 386311360, 763439271, 289353203, 437781314, 317022367, 1796184373, 1709529189, 2123813778, 808338779, 65218478, 184925856, 1578498835, 1140814966, 1864779537, 942059374, 1398335444, 1737043700, 468922485, 446119576, 1710673168, 928551695, 1567272782, 789139699, 416207845, 710053057, 1376290881, 1758407667, 470692403, 1035289434, 88934683, 565639542, 721576078, 630014323, 717995646, 1228142370, 850760097, 1034709124 >>) @@
    (<<0, 0, 32>> :> << 166262001, 1989638368, 458738575, 310622925, 650963150, 1499703723, 1933194169, 510660790, 1065694118, 52230213, 1546704859, 82786089, 215253818, 697331704, 1092912541, 709402098, 1810485335, 122540726, 1122702969, 1482981967, 2028729417, 2131722407, 1893651370, 1006677963, 796631977, 1291093533, 1602226, 1164815688, 1621923931, 1678333315, 271461698, 1126699803, 20209620, 1042537768, 1569132258, 1659991612, 1809989323, 435864092, 1796536568, 618110290, 2047488021, 1986611108, 433083566, 958330196, 175021561, 717669057, 259308794, 75502228, 2099692855, 1128426358, 240357955, 1562672469, 342614762, 942438528, 43163544, 926399723, 105940207, 1979568327, 82176864, 1193040531, 758131265, 487020761, 350616059, 1005033382, 665021338, 1564291621, 1994604731, 1057405523, 359665307, 1148134256, 1748816838, 1744920606, 1585610498, 642716878, 1220891800, 1236884193, 1236295497, 176923470, 1653872490, 71171973, 1260774524, 623226584, 492408286, 619355042, 707549059, 168967825, 524014402, 1423669403, 860375752, 1806789926, 2120128439, 621315255, 916442785, 1496018397, 149552842, 1703615083 >>) @@
    (<<0, 0, 42>> :> << 1373158606, 239081663, 53710184, 1592467581, 590620971, 525901256, 479341423, 299655412, 1581559892, 220106707, 1453201078, 1590571865, 1915941032, 1171165722, 186699713, 1268073012, 906070220, 68252793, 63989047, 201209005, 469521477, 499635468, 1085242216, 1292825378, 56985561, 1205264595, 427000596, 1537640408, 1395616196, 1506083910, 1170252923, 900911954, 473392624, 964669077, 1265438422, 597409992, 1738238661, 1866808229, 13955983, 1629526405, 1730483678, 342865762, 1499242941, 907557512, 730682427, 596724164, 333889688, 462382781, 2055599409, 1639591159, 722831292, 219494902, 199170184, 815887678, 207696843, 770902343, 1819980297, 738639288, 1296491777, 568054227, 1733294783, 93309105, 1567087080, 986607411, 1151541058, 268062140, 2089750182, 1980614224, 812896393, 169222132, 1185498232, 629595552, 1781132953, 1349993687, 1328261053, 1901493143, 1850501472, 776605304, 1239854303, 412936598, 1513056504, 149368553, 98407116, 1420052172, 489407815, 1660151621, 621455910, 2115747110, 171351960, 1836780819, 499914620, 1860759513, 216898920, 816314859, 596943772, 973691209 >>) @@
    (<<0, 0, 44>> :> << 877324116, 1116735496, 1163876028, 1506705061, 1851209551, 250515587, 379386581, 815117930, 483526399, 621842760, 62485877, 482510475, 250505110, 1221250766, 18909938, 215135139, 336489929, 1663113973, 1103190711, 1479228425, 2124919850, 650650045, 1489301944, 1361533958, 812664866, 1269156777, 869833384, 1645178451, 1484576126, 1438886626, 700337097, 769409817, 157954797, 727612350, 1807156663, 607157224, 1325469772, 341553868, 240539269, 1097394360, 150467070, 1264049202, 203211113, 579823899, 2059271997, 677377483, 231320201, 2025330287, 1342857962, 1764859574, 2082130314, 622141216, 75169082, 739917771, 828668512, 205756714, 1024953080, 1022430868, 1969005120, 409268867, 405000745, 279264385, 554795677, 1604419929, 532500009, 1667651124, 105666371, 93297037, 1446795844, 2062811751, 1753861581, 1459990654, 937086801, 1524416522, 81246872, 1586141774, 1532401337, 1491893731, 1582794256, 1813454699, 1403264697, 1742678804, 705776605, 793525503, 1783445850, 1011203166, 1354113427, 974162210, 1266958687, 1722201009, 1160778025, 323382833, 500925236, 1038202571, 978334482, 2133547250 >>) @@
    (<<0, 0, 60>> :> << 661009983, 608641660, 1241155094, 331006328, 570410389, 493171955, 1734943561, 1038323305, 1003341335, 1901087965, 714080843, 2094428896, 1925761551, 88419757, 1701691789, 1976215415, 1846006365, 197976496, 1429824111, 1841772351, 398271925, 330806125, 837365133, 99729040, 514170641, 1371963135, 1703231100, 1931647545, 19722724, 885770593, 1697688216, 1559530510, 358149531, 280515500, 657434922, 1341113584, 1350076773, 1707551859, 1449368002, 319929925, 1100363137, 1280850743, 1194463037, 1744093216, 1264623755, 103766475, 1289146901, 1209451725, 232574515, 2114408359, 648262953, 321176023, 44021318, 2048985300, 1217198524, 470236470, 632440279, 1681963213, 520026722, 1174396959, 589391509, 141674284, 2021339110, 477769340, 275380039, 1518453216, 1936914414, 550308397, 1939550658, 1786921731, 437653731, 1571384590, 1781976059, 1864295479, 420391271, 1243601576, 1387000635, 2080164196, 262075799, 1074248813, 683771166, 1738516346, 1060435352, 788030825, 808357264, 187918126, 1773032237, 1128148353, 1388441230, 206535551, 71989354, 53292429, 1198565374, 1548917714, 196047418, 174330264 >>) @@
    (<<2024, 1, 0>> :> << 1228946049, 776104740, 1510604676, 1498342326, 1104105838, 1224782253, 990036395, 543887591, 469840127, 59966621, 1142886749, 298774540, 277481072, 1471863648, 1103412612, 1832131132, 1252414833, 1953756506, 1404981596, 1666735896, 2016531551, 1665694299, 1883701546, 566795452, 32044356, 385465877, 987261152, 1360343969, 1762405220, 769500813, 382227401, 1399941181, 1291578510, 1405723068, 1026197642, 15420785, 1587443504, 635234757, 1385731146, 1075539437, 1029654762, 1449857170, 533289919, 995237087, 1519109236, 1390469322, 981000995, 193799688 >>) @@
    (<<2024, 1, 1>> :> << 770709656, 480228691, 1843313025, 174941821, 1019929369, 172863216, 1102951885, 800152819, 1570098349, 1174263109, 446852601, 2062261492, 1463812528, 585517683, 785239605, 1903852679, 454388505, 1423881726, 1801111267, 1120338884, 1261603134, 1641489920, 777951393, 539088288, 1753315831, 404365826, 479474741, 906572715, 1741169117, 768759673, 203328041, 2100610991, 1425709165, 1486712727, 1001726227, 1333651498, 1524285871, 640927668, 878036799, 2111167278, 36206955, 145289688, 647255976, 1984648428, 914855959, 2108229728, 517952794, 135362815 >>) @@
    (<<2024, 1, 2>> :> << 1048858986, 676614662, 1815212418, 1424227801, 915809181, 554849239, 1202808024, 1971190098, 1244711053, 1092574694, 1107273747, 68340555, 1308539470, 1064127151, 716452639, 1777447803, 1281482256, 1898827012, 1273182324, 725421218, 1664045892, 2079691044, 1503326633, 233707971, 1176222771, 1668543676, 1990126752, 1274928232, 617820697, 1944593144, 416277182, 254491870, 832810662, 612506217, 345156133, 1170558341, 1361833211, 1430006886, 368226295, 921174220, 1125960179, 1518593698, 404534053, 1848301103, 1832246268, 722911798, 1025342725, 1688037985 >>) @@
    (<<2024, 1, 3>> :> << 179276046, 1916929923, 867265665, 1973369832, 1529456318, 1697871410, 421474356, 1272607058, 484935697, 90322028, 1366513714, 1556402561, 8910613, 1139150101, 1836517606, 2006349818, 1211153209, 1108752798, 47653973, 400219647, 1130594086, 961702513, 383596020, 1887642367, 221152852, 1150840252, 428200884, 2071002988, 323883507, 1454365865, 519740818, 1190045991, 843417616, 816746657, 2086901360, 1846772958, 446119391, 1705940168, 2048068808, 1020780203, 1942091162, 1258218529, 2110586621, 1038606233, 1493337656, 1813130833, 1846738347, 1893425048 >>) @@
    (<<2024, 1, 4>> :> << 1287349976, 264466878, 2037892303, 68632272, 1673039234, 1178576918, 1779076804, 1226283475, 843034114, 240921612, 657054999, 1429346530, 1139646475, 1362559379, 22968696, 1809707273, 517197904, 1530189217, 1773738984, 1878191275, 588356997, 1810191298, 1795346140, 1284413547, 1667315941, 1123329922, 2011623607, 129925350, 1906441156, 1167031711, 1688559497, 1763072841, 1104059899, 1770805390, 1835211410, 1191528325, 1691149401, 424684226, 41504141, 735489629, 2088066066, 511987830, 486095802, 798521938, 1423041242, 47923316, 615786571, 1991308225 >>) @@
    (<<2024, 1, 5>> :> << 392662855, 906612156, 1408308266, 1138244921, 773126126, 2098346015, 1340831786, 1859773671, 1634965399, 1723203735, 1392973753, 288773643, 693338356, 1403130019, 89693590, 1876406742, 470916457, 776697999, 107732872, 1988588278, 1540036283, 1564759492, 2067019059, 2028383409, 689166705, 747170893, 1775195593, 872641548, 148820035, 1454529675, 1225674323, 2129109545, 916129603, 1022881398, 1453172130, 932473209, 1279984124, 225629878, 1912687330, 1352930352, 1801339618, 1849113833, 576096745, 1631024450, 2011153473, 905137917, 38505533, 1340046927 >>) @@
    (<<2024, 1, 6>> :> << 2115581850, 668676381, 1037994507, 1278340165, 1177177455, 574508127, 1247668070, 1344471151, 1824333117, 1832651212, 1461924050, 106396209, 251234322, 661851405, 1059443194, 396538595, 181542193, 1729400031, 581947550, 1072633482, 1799461354, 2145938136, 568542222, 2060225463, 734347827, 1288664116, 1871501430, 1044615855, 893843462, 2090368077, 1998666961, 1450433587, 577221473, 336417215, 1279521808, 377734998, 1778095608, 1334322142, 565849327, 300852268, 753066329, 1229519625, 1733896629, 859584999, 1196269944, 660160860, 457437262, 1172689537 >>) @@
    (<<2024, 1, 7>> :> << 886370524, 270956637, 3946710, 1148610668, 160302304, 690035578, 1057971837, 974842895, 1017961528, 109799325, 744006812, 1247115772, 751865405, 1423669796, 1580622944, 1670782310, 793182229, 689016430, 85970246, 1158434422, 531242424, 1703157051, 1369970301, 1070765860, 1440190103, 1032886336, 870707445, 1136257010, 369606610, 1389770503, 1281551690, 839424067, 1335240822, 2059204836, 618950206, 867973559, 240867719, 2052315755, 1229803146, 1815935623, 748702091, 455508620, 882979588, 755996945, 1039849950, 1560329892, 1292438995, 1659062230 >>) @@
    (<<2024, 1, 9>> :> << 1331846255, 1252913867, 925432006, 1439833398, 2133929097, 2004675347, 1824586972, 203742385, 157884842, 1090826006, 601668927, 1150689899, 502876083, 1257893662, 845456988, 1052878416, 2027378193, 931398232, 1931366208, 888525940, 284541824, 1502335224, 787040131, 1518620225, 648399983, 2020722719, 1631689625, 525709708, 390533671, 33806267, 333507002, 1812121200, 1507957502, 1370568494, 1983472186, 431804724, 1587275107, 1812062885, 687371609, 1859061174, 955603980, 1069713615, 315395286, 768000516, 1613894750, 1447261989, 950784440, 1642151544 >>) @@
    (<<2024, 1, 42>> :> << 1640730770, 935929458, 1728293354, 1182153887, 1052975944, 1690405913, 1725621174, 1550947909, 930890591, 767046878, 2124284406, 1004527362, 1995148344, 413494937, 2026834547, 1114461079, 1516299519, 2064056901, 1374856590, 1644197578, 197693665, 1445318007, 1415354556, 302926598, 833408416, 1371217924, 768730581, 1135024576, 462408099, 157582342, 1418881226, 234382302, 742016198, 1045416766, 1276831858, 708879489, 1502447290, 552605786, 653931430, 547473021, 195551722, 794956072, 1414873495, 795232504, 1419394454, 294726720, 1064860829, 1518739293 >>) @@
    (<<2024, 2, 0>> :> << 1936616019, 5498402, 1886297685, 622801583, 202894092, 1999851549, 1072377622, 1459524003, 619911088, 1789918331, 980548400, 311791806, 1931215680, 723837562, 601226016, 276278299, 790590840, 235961099, 1676697458, 228507875, 206439460, 1096905942, 1780294280, 222831183, 1949882290, 25194460, 1762567367, 853019162, 1153063567, 1575876323, 21804181, 459499399, 1668931878, 469657532, 56343498, 2063223971, 1675790297, 1917913325, 118594321, 1549647469, 119475295, 1830660402, 1920142236, 1965098351, 1118747695, 1434299235, 1028467562, 859210196 >>) @@
    (<<2024, 2, 1>> :> << 1001991542, 2067502420, 1030526350, 1817534766, 1429768833, 1417648314, 1085394735, 1734265790, 1767984364, 1746510543, 309981846, 707733327, 1769403044, 1976138495, 1570906486, 915414742, 1363438123, 1517795772, 447764957, 1898640870, 1811652631, 31490680, 67681613, 977322090, 575621447, 244052597, 1738229240, 1864511386, 1477899072, 831436551, 436195656, 207223313, 1045611495, 79422737, 1417894437, 151683609, 1319274467, 752051212, 726443272, 407929237, 1955827822, 801665028, 823161177, 805605324, 681647532, 1111544856, 660236816, 51641526 >>) @@
    (<<2024, 2, 2>> :> << 863922634, 301152827, 909033146, 559665007, 1315354650, 1326094129, 1802839625, 2016826018, 27303909, 1790529861, 854699468, 1902708167, 1790047745, 317017165, 516441053, 404108623, 1506111914, 439055950, 24834141, 1591232500, 253990694, 1776042570, 1633676955, 551502669, 73533845, 1348073914, 804157164, 1388158853, 1560894818, 378487471, 173983046, 2058761588, 1217317111, 1401200585, 1154025978, 42912397, 272508363, 1006180257, 1000655757, 667545572, 1103800115, 1835564315, 1130565290, 1183314496, 1803361708, 1148225904, 860380333, 1118266896 >>) @@
    (<<2024, 2, 3>> :> << 1551434938, 2108771851, 657904129, 1569288136, 1284264966, 919218159, 453273769, 516889342, 1058639896, 414342650, 1285750563, 689115297, 1484721521, 1144337455, 1015272139, 1947029118, 1301389451, 1613577892, 2144908853, 2020390192, 551634737, 607478907, 703166108, 971082498, 404988651, 1304524209, 2077386042, 90227454, 494928868, 1343266262, 546894772, 1360765218, 119448223, 1181898845, 1249934246, 882145692, 1943618998, 138756100, 113004331, 1892441601, 880787087, 1222993127, 182260291, 94431345, 2103466257, 1390759924, 1438268730, 1633097669 >>) @@
    (<<2024, 2, 4>> :> << 677196290, 928003201, 661921570, 1908632687, 1701992830, 1280333990, 573216932, 257996802, 663190654, 1016627585, 88753981, 400991917, 721263148, 1414819165, 1642582889, 1694411768, 2104830331, 1587389391, 1133041138, 1309782565, 198471603, 1660558136, 945037690, 849768419, 672610609, 123215504, 1691538130, 1847556899, 89152588, 2052826334, 796281251, 1868449623, 456601555, 1202408342, 727822494, 1814162371, 1194830640, 2135798870, 1183726822, 1016776286, 250252577, 590250734, 110557916, 420595477, 1023087949, 1568976305, 1727794416, 1898831281 >>) @@
    (<<2024, 2, 5>> :> << 213683062, 337117586, 896499313, 208716859, 72658856, 1705467940, 2004899104, 2102567294, 1106012954, 1655790981, 1534446607, 1710701114, 97019383, 181623197, 693886303, 1862406041, 502472526, 1876042119, 1318842220, 243571662, 1379583610, 968623919, 716093931, 659334860, 1253715652, 1368994350, 751514916, 1148804134, 1173919735, 1395836340, 558932936, 1176062153, 769639638, 147214266, 1290000958, 1861411714, 2140534988, 274753229, 1632262032, 1570451726, 1623837901, 1735383803, 1834728566, 380567359, 394401413, 608767283, 1980055536, 1466550024 >>) @@
    (<<2024, 2, 6>> :> << 782849783, 1062031748, 351483391, 958204899, 1885298205, 46922700, 8064360, 1021670083, 1396815978, 494635358, 141067703, 1799718172, 690229634, 1502309994, 229338969, 537100189, 153516758, 1830057452, 490353332, 403864219, 2121707947, 189886506, 1015524803, 17526168, 129911321, 1771516626, 349565593, 256037851, 1845785362, 703604313, 649641822, 600894916, 515035562, 1168345395, 804211346, 1140510073, 1001596187, 2115026996, 355565653, 436050364, 361904184, 970426265, 839724010, 2131737588, 2088872957, 1751962962, 765525461, 540944986 >>) @@
    (<<2024, 2, 7>> :> << 1011925165, 2077225319, 1557766315, 674002743, 439382207, 452776181, 293628493, 707877407, 975174827, 1910205103, 115699990, 2055496342, 901599170, 680569508, 1973967954, 1300844544, 338607512, 387525267, 461370169, 1495640991, 545718597, 222645998, 965695663, 1910358438, 191290741, 337327508, 920613880, 1185846234, 1424518317, 1881839090, 388385683, 933826958, 1179298744, 1123824510, 336267637, 1465014787, 609306116, 371372171, 565255502, 1735494254, 2131617749, 482844511, 1226275784, 358583950, 840644394, 1807505479, 1599647429, 1817105836 >>) @@
    (<<2024, 2, 9>> :> << 697614580, 2136758455, 1835915700, 412374389, 237070296, 1422595714, 1543915299, 1645853185, 186995072, 239476153, 1682862382, 1791497927, 371787560, 962454296, 127280873, 71151616, 1128103193, 1225948279, 1182540087, 1244168744, 353160287, 1393690651, 371870925, 1787438608, 1900385892, 1931411132, 1488013153, 680051310, 773463105, 2137899240, 53032855, 241975687, 1927184337, 241843272, 43022532, 1323741563, 1651877961, 249435956, 1016893452, 1304057308, 1767602583, 230374700, 1342030430, 1380009371, 480886642, 1523799918, 667166343, 1963098024 >>) @@
    (<<2024, 2, 42>> :> << 1425307322, 851564406, 741738056, 501079053, 729954930, 2062592765, 756971756, 360992070, 1523144215, 1852743591, 454384271, 1740744215, 975703901, 1420391785, 1819684075, 134954681, 2009016824, 2031219173, 289147422, 166615126, 1774507011, 1725162495, 2085005563, 1992556464, 1599790478, 219070761, 1687211237, 2090501726, 158976839, 644542029, 1127496130, 1616329148, 1610179452, 1596150918, 182125560, 1389914351, 735643075, 640192239, 324644687, 1470915704, 1864937032, 1953155219, 288501565, 1245987060, 240440294, 576124131, 171030620, 504412446 >>) @@
    (<<2024, 3, 0>> :> << 2038271381, 370342608, 419017370, 1376020182, 296630220, 393967599, 167518410, 1635588121, 1048252290, 240464669, 1639130942, 659305821, 655430058, 1413523259, 1718757452, 1316537457, 772275491, 615758504, 491589946, 640763570, 665164506, 376106117, 2056657986, 1328929698, 397364818, 944616731, 637626437, 1645672513, 1222798911, 51914810, 1516804078, 866956644, 2124702320, 791380601, 343952397, 1039466944, 244039654, 723038083, 375658301, 785008327, 729054334, 1470478847, 1477926600, 1558960243, 138703613, 168357195, 1181843293, 1592627913 >>) @@
    (<<2024, 3, 1>> :> << 118418996, 1881448002, 1564583268, 1302112061, 704606960, 976986178, 1776576762, 278021182, 973762820, 1431262488, 1758501433, 1048519746, 500498653, 428845447, 1816460246, 1958239642, 174202354, 2127537287, 702430167, 758060659, 1932937552, 1003570809, 114720376, 1717281066, 349036127, 1756939367, 696775225, 2088862736, 80589419, 845866958, 17627047, 1692497754, 205413841, 1452248125, 2139744130, 733797561, 441523529, 699146199, 997502730, 50233695, 1003596163, 28992939, 1331032042, 772436919, 1017159452, 331647223, 530616772, 1243993861 >>) @@
    (<<2024, 3, 2>> :> << 687067248, 1354320039, 1368301929, 356852750, 285059719, 528359165, 1055980028, 2040402098, 1340655597, 2126186828, 1345365668, 1877429706, 239069239, 1783726573, 650468024, 938580528, 516841972, 1790235111, 2073441977, 1054106658, 1156708313, 2084798643, 451436815, 1245108542, 1264930518, 798022121, 44553208, 1814657018, 515273512, 526657391, 1031698591, 1216135541, 900409570, 2133236035, 1282504565, 212420429, 660017846, 1132355624, 973256296, 215018850, 1734658667, 1586538232, 274719284, 185047820, 1566977247, 97666281, 807484809, 1631679050 >>) @@
    (<<2024, 3, 3>> :> << 193736507, 1818331835, 690132941, 83900046, 291820554, 695436999, 1518621653, 1775288094, 988652693, 1816823387, 1814429779, 919557676, 1044175944, 168272789, 239151770, 1013393633, 668835116, 1786296717, 1979672784, 231492308, 1795624991, 460754107, 1574345490, 53921692, 509304430, 661013479, 567447170, 1331946901, 1013517391, 692771757, 409808666, 1024022889, 914679824, 2031288420, 1218100229, 205637155, 1123618316, 715674564, 987411984, 1696558057, 1388784143, 141082083, 1869671917, 1798453673, 294872787, 343630623, 582605809, 545434755 >>) @@
    (<<2024, 3, 4>> :> << 1466851051, 1012908284, 1352745427, 845367315, 1196414613, 1872578152, 1559659870, 1357467325, 92908981, 1688370203, 243166729, 1094831140, 1061415769, 1897618208, 333467980, 121847530, 828594742, 24705673, 88369785, 1936856353, 1062914959, 471990783, 1052411811, 857512847, 493483604, 831067309, 2067022992, 1718215729, 1948304085, 1782508420, 735410854, 2126256145, 1253692734, 246410517, 176082931, 686428760, 447958660, 511488212, 232049346, 1794270425, 1389021461, 914663809, 1259785998, 161267194, 2012396383, 1565427424, 1773198039, 1124098487 >>) @@
    (<<2024, 3, 5>> :> << 2070504946, 1875592464, 1282885805, 207216625, 1471625268, 892702962, 12659872, 1383823161, 1303610809, 1132425389, 1468462179, 1843878066, 1602407954, 1923553052, 32609796, 699731525, 1566998936, 985076514, 129578122, 1249136012, 1977582276, 1232477715, 1409396148, 1427494744, 1436655455, 348903102, 1642485044, 73894054, 607111115, 1198682660, 1449115811, 800493321, 855079950, 1581085826, 385298648, 1933647413, 1064970214, 1063388117, 797405348, 1666690819, 1510652426, 187327912, 1142776010, 1579840898, 433255559, 1816156082, 789037227, 929060172 >>) @@
    (<<2024, 3, 6>> :> << 556877213, 1914183517, 1540448650, 1188463361, 1479751793, 2074257887, 769108341, 918397329, 1574822229, 398299898, 124699297, 294461716, 1327380751, 990488938, 50432407, 1503331523, 1590826092, 1518058922, 202091473, 813198626, 1943700222, 147392560, 1174797297, 895524802, 496339022, 1721137288, 982014221, 1505693184, 1469465689, 1492295237, 839728164, 160732021, 2058034914, 499305843, 1653096762, 1916136309, 538277530, 770945648, 1995402642, 349068374, 2072346722, 1004336290, 676165820, 1332971003, 1255171147, 979205223, 927067331, 2125307348 >>) @@
    (<<2024, 3, 7>> :> << 2022682738, 670089120, 647463533, 1200043245, 403553920, 1682976416, 1629592457, 1362151456, 1116581721, 1020927315, 1916206246, 682868028, 1486664277, 341561878, 1265571354, 1155775533, 1080006325, 930345990, 1111136660, 2042145354, 185930382, 295735924, 1754162844, 1569604195, 1192068133, 160206459, 1768801253, 1902007240, 965628351, 139999453, 2026246583, 418570595, 1358182407, 988061491, 292338991, 112353550, 1084629143, 1105670694, 2021227784, 539042508, 2098454570, 231060623, 2039176533, 768284376, 1015183902, 1114252762, 1749566808, 2023150788 >>) @@
    (<<2024, 3, 9>> :> << 1029855683, 472626413, 1609672890, 30896540, 1917999016, 1637195101, 621279912, 385959145, 2057160262, 1306533174, 1963798940, 302512963, 761831714, 2003909404, 1563905865, 1471640482, 611745806, 1604532482, 1696865811, 1805613728, 1825869580, 1104646197, 1692941717, 136548648, 858979518, 637884319, 1233643330, 685773628, 1048109065, 1075769929, 468298748, 590405054, 1699511107, 1240485822, 766604334, 1386037266, 219803143, 1166185348, 439132031, 1773127246, 640062271, 677823352, 417224838, 390278434, 1419084749, 1276547989, 1900974343, 2081632100 >>) @@
    (<<2024, 3, 42>> :> << 1214920740, 410235999, 687322059, 1450065782, 1266148368, 2107131799, 741848705, 495471243, 595552458, 1699042308, 2119578406, 1245010321, 1533420009, 51568184, 302340300, 1157607428, 1020285850, 1500950175, 1177081980, 360802650, 1903476903, 335116168, 1859339321, 996702816, 379047390, 546836132, 1898277828, 1687828986, 844612068, 956318979, 60659423, 143799593, 1511702274, 397854273, 63097721, 1634124927, 1353029989, 1004879255, 1144466507, 464667134, 584818543, 215769427, 657557639, 1460814154, 943782691, 1138502085, 2124552802, 646805044 >>) @@
    (<<2024, 4, 0>> :> << 1864910370, 1822910248, 1614831425, 954301948, 112666917, 2091646273, 524157712, 1296512327, 1417163800, 313221560, 2100959166, 1917425283, 489624522, 866509988, 1752018825, 676312753, 882538492, 589654428, 55769394, 595912637, 595548331, 1649417582, 858346646, 120733056, 1159600113, 2082533444, 1617386331, 1806269015, 1097730669, 1104829185, 435578178, 840230477, 92876426, 1819166363, 2080812523, 1290649820, 407062236, 1734909571, 394312571, 809271511, 190036858, 777652691, 116439926, 66117856, 1109325108, 307784241, 301010229, 774753079 >>) @@
    (<<2024, 4, 1>> :> << 873116193, 309025168, 1707410688, 473334811, 49429700, 1588260127, 1216570078, 467101244, 92588406, 275063591, 1551711384, 728988098, 1308088634, 768856594, 947451686, 816445955, 839004195, 248025784, 338653672, 448706544, 85138662, 877545897, 2096546954, 600289581, 65864491, 204808486, 310192555, 840864704, 1129293938, 1776971180, 1854622110, 154477929, 96015257, 1476048562, 1062713338, 1036487529, 6488694, 1632965717, 1311504152, 1258642521, 695238122, 1231509411, 746249733, 1460190402, 1878190473, 515753582, 1682609406, 1677362471 >>) @@
    (<<2024, 4, 2>> :> << 620091136, 1976894108, 1577418512, 344006686, 1468419933, 2041119850, 253842708, 595663713, 1772484156, 785615290, 1224014522, 1012228911, 1331698182, 593533879, 1117155011, 2113950890, 920028687, 1695156966, 1682072957, 494121696, 272128552, 1312906629, 1749600431, 1341468951, 695294402, 2142507441, 290103564, 782504931, 1013746928, 901081397, 806925886, 544136219, 1680713712, 1547359596, 857158121, 1374624613, 1026844198, 776138090, 1483028327, 1455368799, 2133614143, 1763515063, 793720351, 202962394, 1891678541, 181025716, 768206382, 522508848 >>) @@
    (<<2024, 4, 3>> :> << 1223209156, 1426376087, 779806181, 1689310428, 1602851108, 1267312540, 1088655822, 237467498, 1423593300, 1925340945, 417322572, 1690078201, 959899397, 1548054119, 2061270109, 22031416, 1728426974, 1840953406, 1842008551, 1119626300, 925313412, 1642023687, 1662749056, 734924914, 1764047388, 995273699, 616749328, 101458282, 2094957657, 467664470, 1415825167, 1114466697, 1870793514, 2007146447, 2033143835, 1328100347, 780115026, 409937011, 2068682281, 932173356, 324176520, 318981762, 1958321331, 648124351, 521040939, 915426220, 1919181396, 822017683 >>) @@
    (<<2024, 4, 4>> :> << 122002738, 1590723578, 919566603, 817260194, 447705400, 1909763563, 440327123, 1728826874, 691390949, 1740810173, 879108852, 1037443083, 681039962, 1054014741, 883738670, 340984527, 277198909, 1456369273, 1609826475, 358322744, 1808145606, 1200649366, 387507079, 692241023, 1036756633, 1963015175, 1498701806, 956810253, 1449196977, 745208445, 914659506, 1067351096, 246903011, 1965414244, 1030215570, 76732458, 555000415, 1926844749, 1361724180, 291001059, 519979866, 351153183, 540138817, 1316382089, 931791261, 600801947, 680287602, 1304620180 >>) @@
    (<<2024, 4, 5>> :> << 676178119, 2117675177, 648512581, 2012768659, 1548296558, 1644889672, 989654520, 230920027, 508240463, 1774278485, 1529734481, 1864947764, 1460766389, 752527756, 2051678214, 1078531326, 1778969072, 1889478510, 1909931184, 12954348, 799598513, 1055869084, 1830109344, 496481466, 1284766095, 224011661, 483644667, 1922125464, 1381723819, 1493863116, 667204101, 1754295937, 748557842, 382421803, 2096879203, 1663431628, 1171458800, 1437312364, 1230374578, 442386677, 1103267635, 217845171, 1821261856, 259710304, 1121096393, 1712311302, 51620211, 1914838740 >>) @@
    (<<2024, 4, 6>> :> << 104738770, 378884382, 1499607930, 86536709, 1086718726, 2048960336, 2013625523, 1035045776, 497668327, 178316016, 192064853, 530938169, 804804738, 875911020, 378101793, 1625221311, 825481285, 2001603389, 543249105, 571207786, 1894665662, 827746592, 1614300440, 514990566, 948947015, 370022776, 1966359674, 834120018, 2013375795, 976012160, 519802781, 253310517, 604023441, 677662375, 498667795, 378618454, 2012210292, 543355139, 9475299, 1304161398, 248601677, 775549526, 170260446, 1548179188, 1015006771, 1293198650, 2054968998, 2064984512 >>) @@
    (<<2024, 4, 7>> :> << 1739362730, 957587984, 1415501220, 988479604, 165190961, 1410318566, 2024074735, 1853658144, 1561064192, 751263064, 1077803430, 593683313, 145005537, 1523454686, 1987212625, 960567165, 273513950, 1189628244, 1351588549, 1568623830, 175196837, 1245867833, 1872872514, 830117847, 1759464647, 2107628624, 454209233, 1797849643, 1673319892, 1771414641, 649642985, 675575123, 905995022, 2089913753, 1230245112, 869578952, 1364842171, 1637058629, 947485775, 1688935564, 1152240133, 140527019, 898183616, 1720961040, 134300341, 32113951, 1484256731, 676574873 >>) @@
    (<<2024, 4, 9>> :> << 1021546586, 30563256, 1829982390, 1993528561, 661721365, 1670681820, 1429491264, 1863880287, 900616596, 552394734, 426734698, 853112664, 1307423150, 926080675, 1381599745, 1379760571, 1191025742, 351708234, 99358032, 1573396284, 1042933343, 89692383, 144826311, 1956738775, 1689650958, 385146583, 104827299, 1259129562, 101654876, 1198809721, 652105193, 527211802, 846809426, 1503995230, 418831936, 906617333, 1830929494, 447902069, 865775182, 120735609, 860398847, 1225720805, 985701272, 1382617414, 70625058, 1315631875, 1595382877, 655856225 >>) @@
    (<<2024, 4, 42>> :> << 501167799, 1269368488, 36564267, 211143542, 1238226656, 1773733048, 552256, 845766275, 814682767, 1212223939, 596416671, 1533967381, 1419550930, 908897697, 191695520, 1355907944, 1886871944, 193827365, 1525606431, 1016356606, 1218764796, 2138693793, 541564501, 488380790, 275520000, 1621981, 885469373, 1954033893, 831284147, 1870967350, 408841209, 1534662619, 198874726, 875578741, 1499130048, 907765969, 1983348192, 1385974607, 1267063058, 1185228450, 2077300115, 1804970802, 1312067834, 898967262, 1155227476, 1089086065, 118897444, 1734820333 >>) @@
    (<<2024, 5, 0>> :> << 1802330088, 1085115978, 510796896, 2089836561, 745842629, 1585453707, 732406984, 502312553, 1070227246, 885313915, 1980597274, 1703504496, 239919560, 1258568968, 1553767393, 134616691, 1648184397, 1117471023, 1627773144, 662703498, 886488499, 787995400, 860025673, 53514999, 10083841, 1027258744, 541119681, 674876076, 957231160, 1114078646, 1044580400, 2097283410, 1360124549, 2065951958, 1251510069, 1237665562, 1911994062, 711749014, 1804010914, 1703241369, 900169065, 1717566656, 1745601624, 1860387940, 1711161794, 267332800, 553183363, 1371492142 >>) @@
    (<<2024, 5, 1>> :> << 759375017, 1075810068, 1468099362, 373275839, 172498353, 41352618, 1045427387, 2051031141, 1546814497, 752158706, 467326002, 2018591271, 615077022, 1168383961, 1897911822, 1644071081, 731369530, 542391608, 1677876551, 1520849300, 314306244, 1197139473, 2121121903, 746721932, 1561647632, 635098248, 1542600466, 1243638235, 525813073, 1064285641, 949384927, 911199097, 1927341904, 488796824, 1009182686, 379103620, 725382678, 743494224, 1079344812, 1398786269, 828620898, 1891345876, 1553369905, 1650800118, 1355257625, 1040835799, 605580213, 236682612 >>) @@
    (<<2024, 5, 2>> :> << 133571678, 1501417790, 1772650540, 1326852715, 935088604, 665536501, 8583663, 680116025, 1694198199, 1511311249, 898996405, 1547500469, 382425695, 1577262431, 915206252, 1789387317, 1721765676, 1216690299, 2022638512, 1185519266, 1828926508, 1618635921, 1941176558, 276443494, 1272523803, 1275402557, 1835825312, 673610739, 1950935134, 510755040, 2123896629, 1211413670, 1433330271, 65184155, 1316021152, 1761693148, 1984620539, 342865068, 79511675, 1238789468, 1369051393, 1795659926, 905611480, 574631091, 846016151, 1385057317, 1555852384, 986494544 >>) @@
    (<<2024, 5, 3>> :> << 1717395394, 1814454243, 973586728, 1335102840, 1675691783, 233005790, 1240856126, 389598547, 1950589249, 1884768121, 826740656, 1565154969, 1796539652, 769212886, 1059048658, 1532647357, 1207695237, 1428952300, 1448640592, 193093107, 1395337505, 1628486835, 789755173, 1480658022, 1285944138, 1632333614, 1037718013, 1379104327, 1748837765, 587580448, 388851411, 334569464, 675589486, 834127107, 234141501, 1871138473, 661450142, 1274808110, 1654175150, 642462590, 1935298518, 418428120, 809463228, 1190087305, 859263817, 653352543, 246559854, 1226594951 >>) @@
    (<<2024, 5, 4>> :> << 1056262400, 1670947648, 192242205, 1715509670, 310076332, 17409751, 661692091, 1141270987, 754767138, 118581262, 1955896161, 979189733, 760455708, 1234461480, 598772277, 132024923, 1562950900, 1673224090, 882369790, 311275400, 1811485674, 2069533151, 2064506869, 2114815738, 271032098, 1999704573, 486018323, 699009836, 549666074, 897816222, 1697677835, 1029294153, 230890103, 953028243, 1121413048, 541710802, 210144650, 1918417143, 7112260, 1696247364, 680601107, 114514384, 26851423, 822527712, 118892705, 216176358, 336074619, 1186045048 >>) @@
    (<<2024, 5, 5>> :> << 645149652, 1561375343, 433570704, 1619301960, 1828457690, 1244121284, 681127186, 64655994, 1679570435, 396087704, 757639444, 2138221644, 317379860, 1014352621, 1224620676, 1875855184, 1216288439, 247192299, 1782263020, 627154486, 964776921, 1762000009, 2009709890, 1453278340, 1650267546, 1808007488, 666172609, 1218683365, 1204656155, 1453835927, 883838885, 1382084171, 1634710323, 154774680, 857566343, 1191130956, 1469234510, 1209859227, 1034405417, 1398528658, 1905956073, 149137867, 1878523288, 424756101, 1603457909, 1062888772, 1079576609, 151480596 >>) @@
    (<<2024, 5, 6>> :> << 391701770, 183902726, 1185534760, 44645001, 1712800545, 1746078978, 723170395, 1760628339, 1750573293, 242568335, 768209912, 640166078, 1184649565, 1813147027, 2045244504, 173401459, 904161313, 1597541010, 1889830467, 641943363, 1220785302, 362418656, 875013981, 1070096161, 1993504245, 1569706665, 761308153, 569418737, 583180330, 588407334, 1182039497, 984144772, 1904765845, 1107289915, 985830154, 1776198073, 415106903, 544309809, 203715571, 354889157, 1120900539, 341695973, 221789081, 699163358, 1546563936, 1645315708, 608375007, 1729150102 >>) @@
    (<<2024, 5, 7>> :> << 1563052401, 1443922524, 400194330, 1735647958, 2920571, 622273168, 672685065, 893640587, 1888696889, 443499839, 208143050, 1741503198, 708440898, 1609472251, 524266487, 760372668, 822184947, 1582194262, 1206361976, 144847121, 1696466165, 898274177, 1957464760, 1215731016, 1660742110, 1580178756, 892074075, 2018772889, 692128198, 702910643, 1781064751, 368869710, 702319201, 130830810, 450799633, 521325974, 1518810672, 2064485735, 257380713, 494171693, 443040013, 1414699444, 1393565224, 487179769, 1696475594, 2023147811, 1972096941, 989058385 >>) @@
    (<<2024, 5, 9>> :> << 1477121667, 409147603, 786931009, 1160146070, 1442847187, 1034058797, 728856664, 84145441, 1754943451, 85911598, 110773645, 183447525, 2147366596, 1327071697, 1964010043, 753222418, 1532350075, 840029298, 321445672, 261319941, 1532121517, 1122943721, 1633903779, 630252341, 497508362, 602956521, 391318112, 295268147, 1858460014, 473318242, 755737832, 1311733026, 685311305, 793125837, 1061557326, 417255012, 1955162661, 1723548175, 2102672090, 29199411, 1781589617, 1815493950, 1542761080, 1661683303, 1687417330, 1092422737, 1284128097, 1340326436 >>) @@
    (<<2024, 5, 42>> :> << 1828125042, 1691194617, 708692715, 1218739426, 2143506192, 986605070, 299284601, 163654371, 588769729, 561833043, 2004228501, 883872464, 177716606, 1130933620, 1608102016, 1591409817, 719529934, 1474979894, 1734709065, 414902376, 602746157, 775743999, 622460313, 1592126564, 290138420, 296470661, 234777417, 1021724671, 1647087908, 492342759, 900163873, 1585465822, 1896832551, 503083083, 608602554, 1113567038, 1087717542, 1719274145, 1025567834, 311418178, 916039988, 304711960, 892923189, 465856346, 1090709950, 373892659, 2069526832, 363310794 >>) @@
    (<<2024, 6, 0>> :> << 58885089, 1289244527, 1801572280, 970909884, 958971610, 859965506, 1172914765, 1916515054, 940247583, 852735876, 526404557, 1386350746, 1730970097, 1352416006, 1373408257, 1213342065, 24449675, 362072612, 1643431253, 1510400838, 503560116, 1460299631, 939568069, 1707209806, 1981478832, 1161348335, 190825727, 839485903, 1452870914, 374932359, 790518585, 583227523, 1897215055, 177326279, 1587377441, 1135705876, 104121835, 1961006336, 1791841944, 17691778, 1230087308, 1160850784, 1833541282, 84687315, 1243502762, 1645547312, 2046931879, 100024538 >>) @@
    (<<2024, 6, 1>> :> << 2052773732, 183025411, 518024616, 1824761151, 1376839461, 2144239469, 1804198177, 1714651548, 240963087, 861578001, 196792725, 1868244525, 1486038645, 127681744, 188837658, 1593920830, 507821514, 269022665, 1432346017, 265644022, 920367703, 428246249, 1589638272, 1920025687, 825860874, 1726530379, 1652630841, 2113412176, 158028567, 305602931, 1103126702, 1058257348, 606170114, 2016289806, 255136033, 1087922066, 1139143471, 849322607, 270479489, 1555250473, 1423294470, 1169966626, 953852770, 1820739735, 1144654180, 681211393, 491405360, 585047308 >>) @@
    (<<2024, 6, 2>> :> << 891563666, 2020927841, 15225754, 406870188, 1565358927, 578596707, 1921332149, 1625352281, 497026145, 2097981339, 1345181305, 871693141, 1114731564, 1635647198, 1274212126, 18049660, 403307394, 1956403602, 1086516167, 719664127, 1867446142, 594587285, 1227036636, 38378622, 188388464, 303393356, 819434322, 804993260, 1871630648, 770503125, 1576124924, 341892346, 1804327369, 1438277336, 827934924, 2127851296, 875147392, 1907349388, 1343005504, 637098505, 2120102452, 130648531, 830505306, 1114599487, 1223122814, 1742387057, 1987659695, 1479424068 >>) @@
    (<<2024, 6, 3>> :> << 1772695056, 1668470132, 1829967805, 1949599939, 764268513, 836525152, 1943073752, 22209844, 480639414, 1374730074, 1624933607, 112678401, 1979382747, 1866336341, 699857818, 753745720, 1595887985, 1949577539, 105731603, 1911976867, 1062356657, 765962327, 1798698436, 1076540956, 1902387587, 1756899600, 1415814008, 1121399950, 892852356, 561327131, 969099772, 815819297, 808105972, 1265950429, 805292912, 2022894812, 1639226357, 1867332596, 459797125, 1390804541, 780468262, 1463873994, 1531415018, 114119282, 1345141099, 1064773982, 97863886, 549631829 >>) @@
    (<<2024, 6, 5>> :> << 586481572, 1188122418, 216644886, 22822349, 2064659026, 99805790, 1664679098, 256923171, 2022918159, 1917941711, 1727149552, 685093398, 242946900, 59135473, 1118771412, 350702118, 267785431, 1628234350, 1504329877, 1553433182, 542415888, 687260647, 1204127587, 828278365, 1126553875, 1637897837, 205442382, 817435318, 1570658256, 1587629185, 1120104183, 560982454, 465518968, 290927218, 1726421360, 104796740, 1911187346, 1721260610, 590015887, 547022106, 1504838473, 114499103, 1851522939, 519157445, 86080328, 1867356331, 1456417512, 1937920514 >>) @@
    (<<2024, 6, 6>> :> << 2103208533, 1208690555, 1121071158, 1670312425, 1385422818, 1659218796, 1274313613, 1900672615, 356470572, 278895026, 1176287542, 2026463076, 1242924745, 1148748538, 181970026, 1359351996, 1201099667, 1250392360, 1335129727, 76714415, 621004362, 1676830833, 1974073036, 736198288, 966650667, 2052494668, 32125078, 1715718133, 1844167027, 763083561, 294635974, 1066181571, 1190932578, 400861152, 262460353, 1632916688, 1248264128, 809594770, 1825255727, 277757019, 1503064801, 1542459333, 1890202010, 1471472623, 952456887, 1594505640, 48062012, 1055384762 >>) @@
    (<<2024, 6, 7>> :> << 955627411, 1917227695, 1687217215, 793916147, 1208557210, 494161705, 1924303939, 1053375020, 1087391566, 1220696640, 1797055155, 180433833, 1612092568, 1127753452, 1759966327, 134165177, 1271837322, 2091420792, 1185815102, 1713176343, 661419712, 289596053, 1966023137, 1641091887, 889119397, 1219036034, 647408630, 424339892, 1642436149, 516030345, 491137335, 289133264, 1741241214, 442189477, 200794664, 1608130018, 2690880, 1291638125, 1648867789, 1327892343, 24752646, 1883802029, 1665037616, 1902339741, 70571102, 1833853264, 1113459651, 702918504 >>) @@
    (<<2024, 6, 9>> :> << 1351241278, 1642286315, 156709760, 117171598, 476851160, 1069701158, 968552587, 1391862800, 790908044, 723977574, 263944588, 1280089053, 2063196805, 1672947292, 473822307, 1167416478, 94544620, 1041578263, 1589454769, 2135177576, 267772975, 150419704, 2019401966, 334590614, 362312749, 1420011160, 155353612, 1212033755, 1889189925, 359052089, 425329404, 859300025, 320880085, 1400498824, 255828815, 2083180992, 1888572778, 270834580, 1715545170, 1816842094, 896534673, 797879049, 593020365, 1471337129, 1304221467, 2001090410, 901593128, 1801321446 >>) @@
    (<<2024, 6, 10>> :> << 624989193, 1464481264, 814201887, 975018565, 1105501458, 1936817789, 7124802, 572505606, 1427696172, 207123340, 1259922828, 423372330, 1307366922, 1655491709, 262402285, 37484606, 1684382633, 632010687, 1196254089, 2075296659, 1131849942, 1600089155, 1378302921, 1839875584, 1060183505, 846449065, 152445763, 1275081405, 1154223549, 1358735041, 887947063, 1545594817, 1483958819, 1687533051, 1786556157, 1983658060, 1922248015, 1983826605, 1546949680, 1872050218, 1444521019, 1472506177, 37185458, 1748013400, 2134665806, 1194699211, 515212242, 620439132 >>) @@
    (<<2024, 6, 12>> :> << 1147968362, 1705458109, 1390642103, 1244078525, 195166466, 1227689994, 1298438613, 1336243523, 1540472795, 2143957051, 1247607756, 2137251788, 1491255525, 1170599999, 1713296804, 330850126, 120794503, 691667358, 1879602850, 1307167183, 1910427928, 1084470138, 964281516, 929909430, 1686975497, 1000469432, 1864682191, 21805630, 348926231, 620823811, 1712746879, 1486959953, 1015784117, 1594394123, 1958370306, 952733319, 1005826605, 1979850095, 1618578078, 1430314478, 1520602353, 1329992566, 715481763, 1948772352, 1359624904, 2023520394, 1907353999, 264531147 >>) @@
    (<<2024, 6, 13>> :> << 1347085620, 2113183481, 1643969242, 1443963374, 1738475654, 1919928415, 2027809960, 2069718824, 1615487826, 2023469559, 1925108201, 1292908251, 291158332, 1665151862, 375090395, 1016435568, 1995697332, 368476860, 1293256369, 1333239384, 568465064, 144632887, 835196502, 916550238, 898646337, 527676335, 1022085764, 881748640, 1305535961, 1956157441, 1133747686, 538511555, 1580108320, 706090543, 1059995915, 507370447, 205802606, 338075887, 272856549, 1938163272, 1285716561, 1451730356, 1718514007, 1855701334, 414750717, 1585849977, 588338415, 982888047 >>) @@
    (<<2024, 6, 14>> :> << 2002598686, 1882784813, 363941205, 839640349, 1300904370, 86789485, 1458900131, 2080988721, 1700431114, 1132190935, 1392847689, 1646572285, 883593717, 1779972573, 1706818533, 195600925, 1220297077, 723818661, 1482716, 377663640, 2132506989, 215642204, 561387151, 505214428, 939479382, 1073580604, 92199554, 1575221312, 565179313, 741476040, 326025800, 563640703, 1474043684, 1463028983, 1386164732, 1133321047, 2040392859, 1550285381, 1798093149, 2103973110, 2082025219, 933183356, 582846535, 699171892, 1510411668, 1631878418, 734567816, 1339518155 >>) @@
    (<<2024, 6, 15>> :> << 2132456911, 1206343335, 1227195001, 576640918, 133762482, 1006645379, 2046817378, 775075906, 1431263720, 1519289793, 1580927825, 266980045, 586836289, 2102740445, 1740480691, 1282766804, 1121460251, 66397392, 413885748, 737473114, 1256228425, 744355827, 310621859, 2129455408, 1059218286, 1047753748, 490927938, 1527760811, 1213368961, 1493118037, 145870783, 1320183637, 779365717, 808941043, 390723269, 636876080, 509261820, 849221715, 39381684, 907673431, 2098714264, 548772603, 967054723, 1859496082, 918033102, 1814849625, 1920080886, 93859778 >>) @@
    (<<2024, 6, 16>> :> << 1985857850, 1126951406, 401239260, 572209758, 820957526, 515541659, 170953861, 1980682389, 986730384, 1653375918, 787909975, 465299486, 232741434, 609078326, 801409748, 910154009, 1149974688, 447024011, 1992819629, 690892702, 890261035, 676785107, 360343321, 1598125427, 405382047, 27541054, 202662668, 356852481, 918374719, 165290574, 1417350671, 154457615, 965721225, 94341518, 1630066090, 1040988316, 455020682, 193940943, 193303949, 308459784, 2044305437, 887011833, 1158355635, 1822074629, 1677533501, 1896647459, 1892637895, 753496767 >>) @@
    (<<2024, 6, 17>> :> << 268579642, 58497420, 1345797140, 1408836975, 1491824336, 1256955163, 1860489885, 167581820, 1811556372, 1963905324, 1637045017, 1945167408, 926517791, 409531607, 1815769603, 1265947152, 523266226, 1919323417, 1731268754, 1800747884, 1116014536, 1432076470, 1670672813, 975172938, 1220179211, 1573707155, 34440187, 94865818, 1279399311, 1886264949, 180838693, 1143624907, 1677516852, 1206007881, 966692146, 1172314943, 65889423, 1280883564, 1853650437, 610075093, 927747101, 1628852320, 1869277779, 667648522, 1378256469, 927413823, 1737499575, 190173828 >>) @@
    (<<2024, 6, 18>> :> << 1817882309, 1379739963, 1710626512, 503607125, 908947324, 1254566518, 1486755684, 1940403177, 1813071792, 254937829, 704566940, 421053012, 50687886, 559941392, 196585380, 313205230, 1593703203, 2043168728, 158093497, 476299895, 450221597, 531235857, 1162103038, 1856717461, 1114435733, 275622439, 1040869252, 1070694869, 1642667886, 387301155, 2122639581, 1976022788, 1806963438, 1493334496, 1067835898, 1524794984, 1837952472, 2116057801, 1609284836, 1256134044, 1033582973, 901964591, 241315773, 1287542580, 552491033, 842373060, 1336236723, 1343209671 >>) @@
    (<<2024, 6, 19>> :> << 221352112, 500110276, 605038444, 1825834582, 998599120, 1047020516, 574890432, 766928015, 453865856, 519920641, 1868037994, 589404010, 1426353951, 1664522619, 773414893, 836998507, 896258072, 1615799616, 1707123298, 1474537882, 102828616, 761714322, 1533124922, 2116074320, 2122770643, 936673140, 375709183, 506018395, 504719446, 1150236394, 756068328, 605482592, 278784946, 100939548, 1976451305, 1490862548, 1785902760, 281281433, 1786415647, 578853599, 21034286, 751713895, 1348647514, 1421924846, 57099839, 266998044, 1101233825, 833212968 >>) @@
    (<<2024, 6, 20>> :> << 1800576657, 1231481736, 1356104005, 2144345062, 550746262, 1675266667, 531588706, 1357693839, 794648172, 1098887643, 217976324, 638515243, 1121542876, 38774879, 1311577809, 263106443, 1018112181, 1146408133, 585891253, 1479450785, 733634235, 141756149, 608005673, 1113701649, 464320265, 1277769728, 1218033371, 806940622, 1590623516, 1064023695, 380293255, 1983445035, 1134959614, 1698500840, 1599014919, 1669207170, 1675783174, 1900144607, 1609862834, 607283612, 1339160571, 1042027483, 1471879549, 392481740, 259226674, 678049502, 1454410890, 1871522385 >>) @@
    (<<2024, 6, 23>> :> << 1120518342, 42851259, 155953598, 233738671, 654744103, 60423613, 1590222299, 988731437, 1039468315, 1522675770, 106042147, 28556095, 727846866, 236670765, 443606084, 609784370, 408012181, 332485276, 1194995321, 2006894943, 71888410, 1593498720, 1706488088, 83126466, 2075128345, 764770748, 1598200803, 1513711351, 181225270, 1244759568, 1022319992, 901304862, 1719557086, 1650718196, 1179536147, 1111215827, 1339628265, 1034816040, 259019572, 1166390638, 1910869852, 1906767522, 1430267308, 1516467505, 1974219776, 1877250898, 863614183, 2052782423 >>) @@
    (<<2024, 6, 24>> :> << 11523799, 309506126, 50824407, 1262885730, 1538428433, 791867484, 30007903, 490576986, 999498797, 1713020737, 1504738718, 2061594003, 1867520195, 1269668487, 1836503188, 1956572779, 1307573748, 1116230924, 871843635, 281620381, 108771177, 1507254864, 705495340, 363994333, 1749479703, 482215965, 1933885275, 1180448197, 831009444, 1930695964, 1022260732, 1253242369, 936434179, 290023596, 609690849, 1886849677, 925734191, 1218103956, 1672516828, 180373092, 949211609, 1518742365, 1536681282, 259870318, 344198819, 939274414, 98153234, 1772471434 >>) @@
    (<<2024, 6, 27>> :> << 1073061347, 1789685360, 618013027, 1076190176, 1873939042, 1608763895, 1675469786, 542783703, 230154108, 207400205, 484809139, 804712753, 1959158585, 3151203, 1409251487, 1412518703, 544801139, 1257938484, 695957142, 1697060728, 1791856583, 917183515, 432274761, 1381045993, 542136611, 49144122, 1307172644, 1246482833, 53157730, 1133984119, 136836537, 22184562, 183441750, 1016626395, 744455983, 514442799, 826213792, 1718517424, 379783429, 319546166, 2000299218, 1903316435, 832139028, 1787713294, 406885872, 809018844, 1377544671, 419076762 >>) @@
    (<<2024, 6, 29>> :> << 2068058167, 1975141447, 1432435164, 1262606339, 665897331, 1633402325, 585510865, 1869466259, 584290899, 694274201, 373514401, 1297114683, 854656977, 2115939112, 898904986, 1728985453, 1090191595, 645829804, 42652514, 2136950655, 270649245, 134876463, 310041345, 1304757184, 101932943, 1195345624, 2146719401, 1875343279, 1971359706, 808517574, 1179109766, 2053079190, 912728085, 1504746543, 1412826046, 909420797, 1506159971, 1113364721, 813644515, 709275952, 1577575408, 192716771, 1683951998, 324096133, 632853511, 1342235388, 319202082, 1258298374 >>) @@
    (<<2024, 6, 31>> :> << 839737563, 1933229515, 311575708, 229085379, 1877205609, 1998662097, 775690065, 2100460036, 1199322958, 418180864, 1303497213, 2066212887, 2035518866, 1976217542, 823806544, 920856854, 330641031, 2127292541, 254593036, 140645007, 465982385, 1699964795, 454203714, 1621041724, 1698053925, 1340335698, 618322415, 1742268662, 285556015, 664477895, 227168299, 1868562182, 116052365, 879417802, 1145181863, 800485042, 1389740745, 824474882, 563835881, 1112918980, 1270778832, 1183778379, 1090057113, 2044656522, 1639363985, 1321456580, 455079812, 1749192554 >>) @@
    (<<2024, 6, 32>> :> << 1158639711, 1639603340, 511027983, 1165213640, 934928578, 1312396732, 2061855421, 1835560018, 1151939243, 1577100616, 1079563859, 85074134, 589144349, 355314481, 1214715344, 213152099, 819825547, 1325670569, 974149484, 86170121, 1986538688, 79131821, 1661303485, 2080892838, 851780366, 1253424346, 406422335, 896703917, 1555361667, 2130941730, 2007604206, 1311941018, 2024405258, 2081114845, 73403234, 1309934703, 34128885, 1397656800, 1759459740, 52726126, 1609792350, 72624137, 855878961, 1138286988, 1413107108, 18508874, 1160470931, 1631317141 >>) @@
    (<<2024, 6, 42>> :> << 720630859, 470038531, 1740311662, 568456593, 532655114, 1091900750, 296708150, 171090149, 987844271, 1238208308, 1995596593, 1612166014, 952883470, 1223714621, 78221507, 614493551, 713757648, 907745998, 2002740685, 1395172241, 1030128743, 1202975020, 591663637, 1882361442, 90919967, 1603203393, 1726919734, 1711421263, 2045548974, 1973333594, 1493409226, 387394733, 1921667238, 1654233906, 332856602, 271795274, 2101059739, 2067789745, 1495350971, 1935278553, 265688443, 2135601649, 88955990, 1283771551, 268000443, 1905906095, 154894663, 1507348945 >>) @@
    (<<2024, 6, 44>> :> << 285266493, 370206009, 125098327, 460809632, 267558467, 1771492073, 1558167946, 1733162831, 1019765658, 90696316, 267564888, 2045411796, 997461643, 1849116187, 717332222, 385640402, 1182378861, 285818933, 44609674, 723593738, 1233269076, 26142969, 1071292696, 710831157, 191024421, 40029, 485003963, 1314010, 1291292070, 1907664693, 375337553, 688266277, 596572784, 293395890, 1989919578, 1093127906, 1429542190, 857104108, 160404639, 8587354, 35792369, 808733499, 2052686571, 253347715, 757804527, 1814648117, 551207717, 1921164620 >>) @@
    (<<2024, 6, 60>> :> << 1549035833, 1244960587, 1452206407, 1350213597, 1300221601, 1605880840, 1483186597, 1736742405, 840181954, 2114901953, 325793835, 335588003, 1902871917, 1734653622, 271039756, 649676350, 1791284768, 1498551096, 1914113815, 1238061902, 460842645, 1939243880, 2053999565, 1366904382, 776318477, 1408660163, 459754567, 2062560257, 1816247863, 1171344642, 1973306022, 2110760320, 1766885047, 421951563, 355837800, 648420875, 811139503, 1636419964, 497131483, 143983603, 467901711, 606160310, 852179196, 392285383, 2010445167, 1308233196, 915847686, 257145466 >>) @@
    (<<2024, 7, 0>> :> << 421198117, 1285339211, 1611589308, 1891288752, 136226465, 2021896998, 257568592, 1669684758, 1265679722, 854991455, 1546154402, 431680873, 1321626152, 655219645, 874895364, 1820573683, 1288193129, 1101819005, 527143405, 951354959, 1744812679, 332692337, 816562915, 127866992, 1327590253, 651625044, 933295308, 787149888, 21014412, 1977100422, 278589763, 1029045784, 585576536, 266433780, 113010676, 1515439527, 2136969087, 1886885728, 1943129661, 902217451, 1688945739, 763380335, 1674503210, 1425858316, 556563897, 1311811090, 861698518, 804674783 >>) @@
    (<<2024, 7, 1>> :> << 618235984, 1512767389, 495658255, 2103326183, 2139473041, 270793286, 1906716404, 1050682454, 824421020, 938461875, 586853942, 1542356784, 1202157057, 486348476, 1969197161, 963805158, 1946689247, 551984400, 982397283, 1618091755, 2112439958, 1949141683, 1439079918, 1137224062, 895620930, 2036626112, 282866605, 921444812, 614273029, 1183334391, 1870786739, 1164723484, 812045079, 944861728, 39586366, 2097957063, 1625262517, 589179595, 1509696401, 1702511161, 846500281, 975414975, 2003581578, 483063424, 781757237, 1243616305, 1071352946, 1950205346 >>) @@
    (<<2024, 7, 2>> :> << 90992745, 1826530365, 1158646132, 1152968709, 14942344, 1698138948, 1460741747, 104029480, 394497102, 1989786029, 1350596642, 831973561, 1432454120, 196292887, 1358412061, 258210311, 1901052002, 1016420803, 1223639354, 1145612487, 2143718829, 208252335, 248643709, 381961554, 2117089686, 2098444693, 1470199054, 240970176, 320520489, 695862857, 1540576911, 558078359, 249716556, 1555382692, 2139305740, 1141830949, 2037617081, 114216377, 1712136659, 1761818281, 735868425, 89381019, 1910439933, 998746151, 977880156, 1806045427, 906227874, 518446417 >>) @@
    (<<2024, 7, 3>> :> << 1039965405, 458157247, 905773187, 378564606, 1368980155, 1973075069, 337650289, 1284005524, 1942079524, 1315851242, 424991460, 2023260320, 611773955, 418133802, 485029080, 560194985, 719865114, 1972899026, 314101235, 2102925644, 1859103399, 568740564, 1890487652, 1583676543, 2023923130, 939049121, 1736454211, 154580509, 2117577471, 954598616, 38197641, 1560779031, 1683409946, 1042497984, 559174834, 1434532448, 1391282201, 1882996665, 1992144712, 855596713, 315184737, 1313550950, 1423298350, 2056777818, 1311723989, 1619418003, 631354442, 261338106 >>) @@
    (<<2024, 7, 5>> :> << 370040327, 1780879457, 497227449, 1569218577, 885104833, 1796849384, 211906135, 464327241, 326559147, 1244816362, 1824762975, 789161440, 119004766, 394173503, 1627878068, 325985374, 1441447780, 170091305, 1792996666, 1996636113, 1682033611, 1530987526, 1977849103, 2093048199, 1587889959, 1409772918, 1303891727, 871287769, 930966343, 1520115786, 1760790338, 1485094831, 239283549, 118809671, 1697134719, 982939624, 2112636744, 1298378985, 24453296, 270502062, 637519163, 2137961338, 2038276979, 1501985054, 684145332, 1474842942, 1183187145, 325742840 >>) @@
    (<<2024, 7, 6>> :> << 1982665563, 763994309, 1039089507, 295289044, 1815604387, 492719576, 1094688228, 1191652765, 1776767684, 340334318, 898161023, 965223054, 1779003731, 844837989, 1280434048, 1826642195, 1145357752, 446223134, 1318634501, 250871069, 1880095460, 569635235, 1685838666, 1347084413, 1347603242, 739988138, 1588483545, 994820319, 788523308, 1715277386, 1809647013, 1668857292, 1049105411, 1819624715, 1328112292, 868661796, 1637205201, 772321145, 1250201703, 46716961, 1802612329, 278250795, 873434143, 1605779662, 107087984, 814744621, 2034122124, 942910429 >>) @@
    (<<2024, 7, 7>> :> << 1914405264, 45721851, 1929253830, 491422007, 629474561, 1126752358, 1163893639, 754460576, 1365015794, 753304762, 607433333, 1048150402, 50710315, 376909633, 1851553361, 628507719, 629903072, 806677291, 1099727829, 1781420023, 941564182, 1477768282, 1170508791, 1097714471, 1869285931, 592893963, 149644343, 153469478, 971150102, 597763957, 366014781, 1796666048, 246843686, 22335326, 739219147, 840991845, 419418501, 1154730955, 1233758844, 2029236637, 941902334, 1133130293, 1635861982, 202096642, 795580912, 359342673, 653597446, 750537545 >>) @@
    (<<2024, 7, 9>> :> << 972376979, 1681822937, 1456522168, 1458686394, 307925373, 328978212, 2007819164, 64023466, 1618452954, 1695793954, 1519795295, 1377553844, 756160353, 153757221, 1555468327, 1023364894, 176675130, 1990632494, 396515828, 146512674, 2045771781, 919359451, 50566052, 782896069, 579839278, 1031119374, 462552924, 18675517, 1399141860, 1125581291, 1444432628, 1597849062, 1658913358, 1959915302, 593854589, 1930053264, 1037837496, 1641006146, 38469063, 1767126297, 1925293487, 258040569, 15725718, 1720440687, 942566892, 378513091, 1581051076, 1983611644 >>) @@
    (<<2024, 7, 10>> :> << 615152933, 1305167280, 1406746784, 207876147, 69091101, 947319671, 1385646027, 916037703, 862217337, 1689485683, 1566388109, 1153979161, 265818984, 491811540, 522309655, 680604839, 1134937700, 196393039, 193452587, 556148943, 1912378542, 452006114, 542449946, 489994506, 1781519636, 1203774609, 236351356, 1792208221, 1753656521, 1732798718, 985483053, 1642379229, 2124673629, 558586235, 1272695440, 1611778171, 63720135, 1635777883, 1799083885, 1435615519, 949867161, 1177474580, 483842746, 1673457349, 999372789, 807628244, 1795877731, 204632624 >>) @@
    (<<2024, 7, 12>> :> << 1024168754, 1314990790, 284590924, 2837451, 999337331, 2008178760, 1246103701, 1372680049, 394099034, 1652879610, 1978958766, 1191766862, 1328891997, 1526825771, 1299226800, 1932315199, 1764366319, 62288303, 427741797, 1322993437, 150911047, 943753126, 990990002, 997186631, 1646190176, 1687391675, 1384104060, 2024201238, 767477228, 654322284, 1675139289, 121579013, 2030721970, 1750676668, 2078336271, 123565307, 243459832, 1043369284, 1821607060, 119576066, 1585239672, 349632119, 1577188180, 1502860835, 1369944397, 1786354967, 1830598584, 1271800768 >>) @@
    (<<2024, 7, 13>> :> << 730596701, 1743710188, 602873879, 1594154070, 163530403, 931173299, 1981164270, 1233254281, 2018398609, 1053191540, 438221322, 1592018155, 641894270, 1428416374, 864963939, 1445674320, 955620872, 1662044208, 2098794700, 1256858497, 235542738, 139178582, 995784751, 1504388675, 1543413398, 1921540477, 1923985149, 1087487273, 1326971924, 985915619, 1195510085, 763646360, 716299587, 902306053, 639432493, 319555919, 370113149, 710975178, 1615535590, 1493333093, 309784725, 1988402770, 1793891919, 729872003, 1934409321, 740809246, 905005606, 1632491992 >>) @@
    (<<2024, 7, 14>> :> << 1031157129, 1319381148, 1803311211, 455677109, 91112862, 1407870355, 1280151054, 1230139166, 2030466353, 5618511, 1465080807, 1856196070, 277384747, 477692300, 1520188886, 1666950754, 466906322, 498742, 863898047, 1913327199, 1962402312, 1836394531, 872144161, 1020892169, 1467612250, 1870540067, 1715406501, 1702708525, 930706410, 1352869685, 1216924251, 908860788, 1574919938, 258131975, 435912443, 655342688, 272677449, 388370945, 1322155222, 619096677, 163104982, 2094069305, 1198336043, 1957705317, 241408735, 766801287, 1430564041, 1245749394 >>) @@
    (<<2024, 7, 15>> :> << 89465623, 849923731, 1986199924, 967993118, 1000301807, 1664181463, 1781230981, 26968768, 101482317, 762075, 1751825358, 314447401, 320186760, 1173340929, 2134532895, 649833970, 901685647, 973241831, 1017289944, 327856132, 54684349, 817819966, 1739007354, 271198000, 322401827, 1053315870, 1255484818, 1249959969, 429288552, 1398506566, 901582992, 1347685282, 1755351558, 2138690812, 1661940979, 2064411519, 1869688720, 1740255698, 428627680, 1582506698, 1264657994, 1355200470, 847540303, 963479602, 661747921, 1895626969, 794338860, 1372654142 >>) @@
    (<<2024, 7, 16>> :> << 799008027, 1850538339, 447686628, 1813111398, 1368092601, 1879084195, 1787622669, 559648093, 1443021210, 1117274991, 1531402367, 1296727526, 677848317, 1962325987, 727504519, 1605339426, 1634027807, 492461946, 716725907, 702919914, 1330397486, 998946588, 1840459388, 1898863855, 1917892638, 1455128417, 1794734233, 1523212482, 915884909, 585473395, 1835537302, 1916659669, 1049244027, 1408594744, 624786313, 919413866, 281641288, 382264649, 401803739, 1077416845, 2104063279, 1888975747, 1774600164, 1853938292, 943065230, 1153836921, 1820397385, 347468830 >>) @@
    (<<2024, 7, 17>> :> << 2133844464, 1032353158, 1472631350, 1939167217, 1466276468, 1885550333, 869674469, 1209247388, 645408585, 473567419, 1499685805, 67835484, 1203550078, 1157984223, 208917888, 1676644089, 1865841948, 451882980, 900360926, 1621770112, 813907307, 953608867, 984834283, 1212219830, 288231362, 281873427, 79371785, 1290596871, 1412982118, 636348038, 210704474, 502042051, 1755095389, 1714601285, 1153999654, 1825628242, 2085149240, 1330501854, 702027575, 1710241119, 1486591913, 602578518, 110723184, 1361683093, 403757999, 1343805995, 104709778, 492630660 >>) @@
    (<<2024, 7, 18>> :> << 1336031709, 262282365, 811407063, 1598356225, 632953792, 219437631, 261985814, 51416523, 1170070985, 865148561, 1368726619, 1583636682, 654156257, 966327904, 1765437419, 2091244655, 1483584230, 2035307812, 1133063675, 1063234260, 1711009809, 1192922239, 1248224615, 133986660, 1005651190, 1630889105, 1526275522, 753151522, 401871939, 1185927041, 1288321085, 704499002, 812722799, 1467126944, 1345252720, 1799437062, 703782554, 1620620132, 2132047611, 1242683109, 205477606, 1328181731, 1342847564, 564248539, 1822175346, 41225887, 218944634, 1791079064 >>) @@
    (<<2024, 7, 19>> :> << 1407375019, 1491310765, 626878106, 854963212, 1137355919, 2126752148, 2129985224, 1106961760, 922445288, 1069167086, 1529435077, 1242140767, 571614599, 1026367510, 1259017276, 2040317528, 39237914, 2078077956, 890454408, 2114476349, 1829607791, 1799510522, 1768850676, 525835635, 1656850817, 819481967, 1617677786, 784334957, 1112948651, 1586650152, 1891645182, 653639813, 434866860, 1175354, 1749434839, 972517641, 2098481614, 1199565402, 1896550923, 1134817092, 1015718747, 1033022032, 1097056277, 1736668469, 1752498081, 224997071, 1959442328, 1127138107 >>) @@
    (<<2024, 7, 20>> :> << 185749643, 909750911, 1424685393, 1146460359, 2042151436, 1707231534, 120369288, 868332658, 167950544, 268636791, 497988994, 1708793870, 2047719408, 472759829, 10194668, 701495636, 897900980, 1664487694, 1185096496, 1801322226, 579318887, 1166017213, 798423859, 1997409015, 1816541341, 614677065, 1167321529, 953968779, 1211880808, 2050661066, 1024450399, 1465202097, 882057203, 234981497, 142622509, 715053078, 485966766, 1494619891, 537630279, 107332288, 1916232023, 598952514, 307162942, 1249204076, 1177256480, 699507958, 1211782843, 453755036 >>) @@
    (<<2024, 7, 23>> :> << 1072388338, 84632045, 1117488122, 1273304096, 1145549902, 1469776684, 1776206434, 2056466482, 1151140021, 1484374947, 171562642, 754809622, 531660928, 2040659660, 365286673, 1648627586, 970628591, 2123609518, 1062042949, 947667938, 1595591662, 410697390, 155953714, 352879474, 503608483, 1372323527, 1410738122, 1361679444, 1132243834, 12752035, 903596929, 1225616102, 1695947908, 602596159, 1162873723, 1630994901, 1328712665, 258218730, 163249730, 1064608169, 1023464231, 945100111, 1542219983, 1295032120, 1164697802, 1925119467, 218102708, 1500605210 >>) @@
    (<<2024, 7, 24>> :> << 281512422, 588569790, 285951590, 910290818, 2048532888, 1654784861, 1500825516, 139159500, 1906712225, 427937233, 275176764, 1992522772, 1459856694, 782787331, 2119038234, 1111799040, 952713112, 2129931720, 1636619551, 1478861437, 399275965, 151595199, 288063005, 802223155, 1101502802, 1971495913, 1234181274, 1345966676, 614870965, 1737015482, 1035513195, 1096368118, 1123211056, 239348762, 1615390214, 1490727775, 1489402231, 23392175, 211747934, 1921749098, 465895450, 1088242780, 396467290, 819999735, 1091066181, 66753840, 323628290, 1632177900 >>) @@
    (<<2024, 7, 27>> :> << 877811358, 1403061273, 1712065756, 1069976650, 941020352, 1459585423, 909514500, 1955809518, 1432988921, 642171686, 751680979, 1209668377, 1675569050, 1786152463, 327344310, 663743575, 1013633306, 917712865, 170638926, 1782260787, 572049650, 558346632, 1172822806, 1060954797, 1588420613, 1807521565, 1947825196, 1513383780, 1909865359, 1019806573, 160845126, 1565156613, 660274037, 1407693850, 1023402578, 1029807763, 555394654, 215949727, 1413461540, 1959749365, 89714756, 1465789907, 623472978, 1716192385, 416808389, 526160888, 1632186309, 546225575 >>) @@
    (<<2024, 7, 29>> :> << 482536903, 229977100, 1754467398, 1758247824, 984124180, 1008958248, 1709590683, 1331573595, 122997239, 812847373, 746493399, 2052857727, 29942882, 83157048, 1964355707, 1763290260, 2070808226, 1996330476, 1695911093, 727229255, 1494248810, 1440629653, 729847826, 2037825788, 1265658309, 1477656780, 1498332920, 1691945745, 1927786690, 1946591932, 1409791801, 1357256396, 621359810, 1071542736, 609850484, 41914987, 633311785, 110407320, 1827540953, 1148213566, 1315031522, 1573604304, 1974882586, 1799411427, 1913519773, 481067990, 698101280, 82410217 >>) @@
    (<<2024, 7, 31>> :> << 1269649865, 531329526, 1697783456, 1727038560, 575634102, 1040518888, 1345003375, 292864677, 1810824059, 2135249869, 1137931009, 104796475, 504394584, 2033470622, 1977200859, 2126581692, 1189298402, 480000133, 1807096401, 950267380, 1600806129, 6248252, 1520025278, 47462610, 389264376, 458190119, 704007318, 1718022197, 1511034814, 1142634802, 1136254918, 1539712221, 894930168, 1509906352, 1047819579, 1493978587, 1271571289, 1721893897, 1004167428, 20045359, 2100668898, 62557324, 1535880491, 233537566, 585594457, 1312895621, 816229971, 1248096924 >>) @@
    (<<2024, 7, 32>> :> << 1480364329, 1019859200, 2044907513, 751444772, 1585909454, 250344801, 1385832994, 2105502077, 949628336, 619814923, 1332810764, 927901995, 1919727346, 1131683175, 1046395265, 87925524, 602288242, 1711562923, 2114435304, 908867713, 1570413321, 413522759, 169505210, 1330244546, 1347496228, 260637661, 517744797, 1345898817, 1034420606, 1127847088, 1836051602, 1192319451, 982439021, 174003987, 2088018832, 91984683, 1506699369, 777203578, 1549254552, 383084798, 1961299071, 461651394, 1504233512, 30316910, 1765768629, 1335466421, 488072059, 1785705840 >>) @@
    (<<2024, 7, 42>> :> << 284907096, 2011387005, 702217558, 786379360, 1932203752, 1235409798, 1149018112, 836087367, 916577435, 2076432057, 610146490, 1925981713, 1442308819, 1929186263, 1495726761, 318311800, 981887520, 287585428, 2059547223, 1752773847, 685233913, 663955397, 1451768416, 813307065, 1241042060, 1546870263, 1408791003, 339703274, 2021309417, 1002288796, 1146582311, 1546686124, 52811322, 1906270353, 222655238, 387256823, 1760272930, 1951335445, 1514015905, 2065959480, 547899797, 852117733, 448907320, 2075856571, 1503502429, 176264172, 2077308136, 1703506423 >>) @@
    (<<2024, 7, 44>> :> << 333906659, 1321288899, 812856828, 45188914, 36314393, 1745591092, 764389159, 398411641, 211286792, 1442977115, 827041069, 1591272090, 503901841, 807634427, 876498228, 518592156, 1412573091, 355369638, 590097605, 1821453721, 534055519, 1645168436, 1806137613, 1972573621, 1608446317, 565201622, 371716033, 886866409, 502099474, 1096271605, 371775056, 1384462119, 1369761685, 1994468715, 316762248, 1931899581, 179364569, 1312795891, 1695664444, 1665123598, 1104823304, 1296031778, 893280561, 1424162396, 1591262283, 1899273889, 1678532625, 1475072326 >>) @@
    (<<2024, 7, 60>> :> << 1663356382, 1416833046, 2099507207, 2040777157, 1526761249, 271824365, 1009236729, 1174790550, 198588881, 596066671, 139115504, 1761026247, 793101375, 463070592, 1206879011, 1775266560, 221513118, 1778461740, 859536257, 439665643, 514024226, 636282248, 1399024801, 114948404, 1875121060, 1418915903, 869372197, 275157215, 2106126255, 1804314143, 608980738, 1824640453, 2087237512, 1237657805, 561942643, 2127110105, 484155758, 1145230236, 939168828, 1908846992, 67633399, 456343470, 1089776393, 1167283767, 982850970, 806616570, 2022653619, 840614609 >>) @@
    (<<2024, 8, 0>> :> << 637749017, 1504052030, 1860718750, 1734514187, 2031784572, 1441171025, 662014083, 1634101559, 631518601, 1180294245, 645883690, 1428677504, 832109243, 1240096947, 451236241, 439214515, 1720391997, 1271410581, 1146105949, 1226996319, 1528198258, 2077762333, 1077174606, 1632040288, 1451282917, 1629137094, 834348490, 1052177799, 82147181, 1937969349, 1545327875, 1930067874, 2126599759, 2121843281, 2045088589, 525701755, 1813214251, 204399053, 1334579387, 1373205255, 2027450658, 1310877264, 580450157, 1176666743, 2034718056, 1407259159, 1206443150, 263382843 >>) @@
    (<<2024, 8, 1>> :> << 1582437122, 204442089, 1410774857, 342714163, 1116290470, 316533202, 1841318787, 689959064, 27360853, 1854216658, 1644932175, 1099678867, 266611807, 43480429, 1641481622, 1233093775, 1627213950, 1370092905, 164292739, 704291978, 1796804220, 1249438267, 629947221, 974375122, 1449033096, 1878819893, 2099466226, 861389643, 1719270576, 596894999, 1417611995, 1563756506, 1243525275, 390540099, 1517532627, 815541571, 891523742, 1978384728, 1773227998, 1198169262, 1698474784, 1131678360, 596015462, 737911758, 1137859246, 1879720852, 1718891861, 1922132705 >>) @@
    (<<2024, 8, 2>> :> << 1124675452, 1651492088, 1165961345, 2001604766, 333038125, 1478968049, 572166851, 1502550520, 211860434, 505377279, 564094220, 2087178268, 708598567, 2101812314, 849309805, 1531029109, 853182942, 2045204935, 1205000680, 403357807, 1343395699, 2129891596, 2031697977, 145621398, 934988004, 1518623027, 1043094654, 605970932, 1476831401, 659649091, 580090873, 1787877821, 1723442511, 2131477987, 1878721745, 1348885530, 1577199869, 291929495, 230062415, 551807177, 637956064, 612805938, 1632520596, 1041888577, 654006081, 398763867, 2117139052, 2103441635 >>) @@
    (<<2024, 8, 3>> :> << 583538671, 814441746, 1088945971, 839669371, 457405924, 139095142, 1929837040, 2014097294, 1802850194, 530331408, 1064164850, 1214145272, 1819443089, 2066666708, 1953758771, 733889107, 523977824, 234809507, 1956810856, 143946063, 2133126906, 1034399118, 1686774336, 447231986, 241085859, 1474748730, 1192766272, 758005545, 2140046121, 1276048872, 840574558, 375106265, 1467765291, 1388276862, 190056319, 1765663179, 508020934, 1347160587, 969258020, 2094942818, 999520473, 2073520579, 687730610, 50374029, 119724454, 2143119930, 1281852920, 2074471661 >>) @@
    (<<2024, 8, 5>> :> << 837826227, 1200042642, 1908714839, 853866953, 525386445, 449605254, 1582637957, 1728202082, 855264983, 367972777, 516600749, 1169638535, 1507265415, 373042769, 526042752, 1083588289, 381561317, 1455884647, 304801285, 1393091594, 1567889694, 564380137, 766586109, 1030624985, 1369946807, 281187123, 684320464, 381465960, 2040353743, 1555418524, 311858616, 1989209647, 1065661689, 985187133, 1018003726, 1315758264, 63161272, 206765855, 1351517854, 1034899962, 1698893338, 848367977, 1070742362, 1408642149, 1114046922, 863067862, 1616966593, 1083237434 >>) @@
    (<<2024, 8, 6>> :> << 665550187, 83596884, 1660471840, 1278383710, 366940418, 312988756, 1933016342, 414005958, 1109035424, 1903546399, 937612188, 1260130547, 1791635161, 1413135704, 2001107957, 1506411735, 448980153, 805365949, 1104002453, 1010024563, 1356029861, 905045381, 477902642, 1128326605, 2111043790, 24442633, 49391923, 1090191135, 1066479351, 75947437, 1090601837, 2113297372, 1367488920, 226887907, 1979614305, 445020213, 1430644565, 1907529481, 1788012999, 653637687, 337965029, 724166206, 278722986, 2127404377, 1557007430, 1314051159, 693288174, 2131864335 >>) @@
    (<<2024, 8, 7>> :> << 1145076310, 1429080855, 1904937544, 1513437488, 622003220, 1718503365, 352290567, 274118242, 1148573232, 487041809, 140916418, 1506900271, 1184635016, 577216676, 604161547, 821722776, 1655557750, 1006736227, 536386164, 1814184096, 1407707197, 1466845949, 1001603099, 532127659, 1200075639, 2133976638, 1673792540, 1055399799, 2101220717, 607340123, 571542131, 532903843, 1572271431, 475638611, 686933719, 1856978639, 1907399677, 987788249, 1637463118, 1969790358, 486569079, 932117363, 95752327, 1925439157, 262975463, 1736903337, 574293274, 1869812729 >>) @@
    (<<2024, 8, 9>> :> << 914573462, 1310095214, 1137550885, 1624065615, 947600758, 927008178, 212755478, 909390532, 1263509959, 2036898967, 111012151, 1772985771, 1633569262, 360389069, 776279286, 641407337, 577898553, 1373338871, 716601184, 1422163005, 1114081534, 1324952945, 201925769, 432985503, 358846363, 2128011746, 995376927, 1056350960, 1632362289, 161502238, 1095768458, 1158169181, 1002033417, 82942393, 2058707390, 211386120, 1341207217, 702251187, 4758966, 263613185, 495190926, 608350377, 1991935837, 2131923683, 360445621, 1994168346, 1799864852, 1000056189 >>) @@
    (<<2024, 8, 10>> :> << 2118409777, 1374020506, 251425327, 754884813, 1460597577, 1536700429, 337135443, 1546643650, 654484982, 1666480600, 1662947365, 164511163, 1503062927, 528782320, 49722146, 1390050849, 592932227, 2122161853, 632708546, 773750564, 1844372071, 1754759367, 49436306, 126693886, 1467532264, 34384952, 1408068235, 2009435145, 1730448085, 609218426, 1707172046, 598607842, 1248480876, 952038547, 1720232622, 89549487, 436925116, 475217345, 1861469283, 651899239, 1316479055, 71303927, 1883000048, 546979462, 274307223, 1035764709, 408869837, 21422566 >>) @@
    (<<2024, 8, 12>> :> << 1033608591, 217709778, 238943092, 715846106, 1518464231, 475448228, 1447576291, 1859910477, 1052198159, 1856922819, 602074869, 414647983, 1532161453, 1245601334, 1098112641, 333932669, 1710050769, 1913359744, 2130795253, 1781061753, 691970442, 479849342, 1696241942, 1033435351, 748092555, 1859066373, 121539093, 775276586, 1890001478, 1455094556, 353680353, 181573312, 319132537, 2136485303, 622580018, 1238436100, 1609740631, 1430767098, 1382503497, 1208296298, 212052528, 926288410, 1296431966, 501237942, 1754812575, 1938148095, 1253481463, 2017698840 >>) @@
    (<<2024, 8, 13>> :> << 1748443908, 2113943226, 1558559709, 1295695795, 1033230870, 413135549, 220504577, 13171507, 1623742138, 1819223006, 1365788438, 2117337105, 1364168249, 1698375160, 1659167049, 117421934, 1463879262, 201650008, 277722224, 785479248, 2050360296, 339122418, 562017443, 319796787, 265938504, 1167951393, 726806888, 1718353139, 686884835, 58243269, 436167141, 384170714, 1865115605, 1249369464, 939502507, 77868142, 965155447, 1724501746, 360220137, 1716902627, 783281861, 753927056, 67705815, 1732444738, 2006993643, 27137728, 1254507859, 1261993581 >>) @@
    (<<2024, 8, 14>> :> << 262235228, 58510189, 1622498068, 434171024, 2104711418, 1765484438, 1079012025, 2137371925, 522525021, 1649889790, 252382453, 1226903598, 619805938, 1697536023, 737980575, 1162991242, 1438253616, 1196959016, 1344421792, 1142063370, 78542027, 361358908, 1336140176, 251833495, 1630621067, 1940849324, 1739161822, 1699365214, 712580866, 387096535, 1753090024, 674833890, 622556639, 132107685, 701483725, 684079212, 2121519946, 295502161, 2080645777, 349146197, 1852365855, 680300103, 1247097397, 1586491165, 699783926, 1878810965, 1185055217, 1547779002 >>) @@
    (<<2024, 8, 15>> :> << 824736726, 589493147, 1409875733, 817758333, 694699258, 578654020, 591734011, 965960818, 638676258, 2497625, 1117486423, 58936501, 536008275, 1372933615, 1476877416, 1996148743, 10936112, 436609780, 20098899, 1351579693, 1601310159, 172525610, 1452565132, 255824883, 749309454, 667730573, 850930785, 579860500, 710194068, 2020870093, 1405691415, 180091358, 223244966, 1180257284, 576166060, 1547466448, 1338685327, 1610528811, 1848450472, 2015047141, 157353317, 2016178470, 2008951500, 517392412, 1245081338, 1954711588, 1167767119, 941297210 >>) @@
    (<<2024, 8, 16>> :> << 1484864706, 592988130, 2017702518, 1048768676, 295800212, 1937497574, 742380492, 1550515286, 741233095, 1084337929, 1443716835, 86472721, 1683605110, 1413160646, 1847390888, 175785793, 1181590191, 1693090856, 1482062022, 2087044111, 1427690874, 1800678377, 1937846287, 2083823203, 2038974357, 597366315, 227992056, 794203744, 57688414, 1429200320, 403853660, 485663436, 1807988687, 1483781933, 1863475833, 1987043956, 1301867578, 2042685576, 1108495090, 2024304088, 290484937, 464958958, 23957898, 534443511, 1828151490, 769537436, 577802376, 514837413 >>) @@
    (<<2024, 8, 17>> :> << 1367187722, 961592638, 1454666447, 1003700298, 1191824500, 1357601257, 728546445, 1179636638, 1143390514, 1284146190, 1950503743, 1324453379, 247133067, 48453762, 709678748, 1453102345, 516244872, 883746733, 681997132, 1239408944, 48613354, 2141911347, 1949434913, 1178126699, 1722049996, 2026687933, 1122622482, 1317767536, 1548662831, 340194722, 995489761, 1041569012, 1662187550, 2047551986, 1063600005, 727407657, 1076511484, 2036659398, 1623094975, 15013607, 1649472179, 897891690, 4004806, 391403762, 1033319057, 1298681366, 869379963, 2049456055 >>) @@
    (<<2024, 8, 18>> :> << 1985871907, 539185356, 743355913, 1147364697, 2052951767, 1932254430, 890504574, 784294641, 455357338, 978613982, 1275938942, 870695459, 1544162153, 1688387788, 1204520681, 875768928, 1699973179, 944437000, 899405217, 418188676, 603926839, 830376686, 1178516891, 1734603422, 1944860121, 1548350936, 1704884808, 1075898130, 2064417906, 11819476, 1312502167, 2116778201, 1474957178, 1060863982, 2038003175, 2129242939, 755758649, 562174054, 951980261, 1368341692, 768902655, 1033796810, 409720263, 357663454, 1327500089, 68324698, 1481667915, 258422993 >>) @@
    (<<2024, 8, 19>> :> << 996106146, 649191137, 532947034, 1167943611, 486391446, 986432411, 224078857, 1323031102, 577402423, 86729547, 1676574159, 1135011905, 402107759, 95545272, 1717627068, 462178949, 1455351872, 1889157843, 2140621387, 1968826088, 649974787, 416419142, 769083171, 621731773, 628871107, 1114697, 1613416810, 1222433940, 1271369802, 181519015, 547107899, 1802759669, 2121758570, 444412596, 1324180795, 329262973, 2079704849, 2034823894, 505674727, 989886854, 1420843056, 356530202, 149283266, 368196478, 1523248320, 1923226801, 2119732631, 436919108 >>) @@
    (<<2024, 8, 20>> :> << 2061468192, 1550874246, 1905936651, 1474530207, 930878381, 527889712, 570533995, 672884788, 1048694990, 2009850528, 995868431, 44993885, 1597223125, 1849697990, 1636329100, 895128642, 1137275208, 926083159, 412656039, 459870854, 960633813, 619718723, 1769804871, 837355526, 151320347, 1655188711, 1902126261, 1471691442, 174530231, 63406753, 126848953, 246681443, 1450149124, 1430011162, 1391048979, 1534978365, 1046980423, 1771921666, 1198961194, 54390299, 1523467116, 1440996014, 1685496807, 1290251248, 1207156478, 383869290, 994249652, 968195613 >>) @@
    (<<2024, 8, 23>> :> << 1338710567, 1407916186, 1472747191, 1652867840, 1089806770, 2063657232, 1637563499, 809173164, 42475276, 1649280865, 1596656020, 573927783, 2111082234, 1051070442, 479624047, 1167890647, 1779866067, 14132982, 305694993, 1533041144, 1489390058, 1836122157, 831936134, 84868056, 293068821, 1169674443, 886584412, 1421255017, 553601179, 1826568925, 1398695305, 1059473692, 672367687, 616615698, 1063292653, 1654854274, 1838952403, 1936899423, 1030601988, 335884201, 435404638, 1026557990, 340086200, 1291677510, 1543190238, 303119424, 1638857552, 1308521967 >>) @@
    (<<2024, 8, 24>> :> << 829831233, 1067856243, 1472920997, 83796114, 1183058831, 1944237933, 1995577015, 1704615605, 1828128316, 1132884423, 436556546, 1732339099, 1796611989, 2037110276, 1922729435, 524716544, 1180996305, 1187910612, 1687525021, 1299460727, 46186864, 1710858005, 300292807, 1865446191, 1474296038, 1089704607, 945765377, 1963608074, 542499052, 63242556, 578667383, 1043433464, 429084897, 441742069, 654025210, 970333598, 1654962183, 962417653, 640533849, 471128676, 788605259, 788801615, 1804794718, 2018769475, 1943147116, 1776664858, 313160087, 1397990100 >>) @@
    (<<2024, 8, 27>> :> << 2129228053, 36980663, 1283930808, 919621638, 1455423955, 515514849, 778321799, 1376621490, 837235118, 246148358, 856982570, 1963690109, 1132385327, 1699325255, 965760959, 2133558351, 343395973, 671160392, 843012077, 1723173546, 1862502868, 11470363, 473484402, 1550369936, 1522048102, 730484151, 886234749, 55355406, 1530269139, 1139547014, 1933809645, 368017658, 1305888880, 1478516049, 1937996312, 747275081, 725781368, 1498141497, 705503917, 1185159465, 1936351408, 672984088, 292037961, 639781136, 982926146, 1776864049, 2124850702, 1825284802 >>) @@
    (<<2024, 8, 29>> :> << 1909897082, 1341132958, 1013273384, 1934779560, 661483866, 1915865598, 2100721851, 830426365, 759432831, 1277657403, 503799992, 747993414, 1659205206, 1327155135, 1883411331, 1811713323, 565040572, 1316604841, 86621611, 2038484326, 14593086, 1057340425, 1127512380, 842239372, 960734639, 574248042, 20333244, 209837623, 468545156, 690196289, 139009752, 1516261406, 1052926117, 1220931035, 713349708, 1166464396, 288624834, 1589402661, 103884276, 1616883936, 1210898233, 1483098528, 1940187643, 917599140, 1653585128, 938442770, 1301485255, 1484930427 >>) @@
    (<<2024, 8, 31>> :> << 1066064555, 1727614385, 1887523275, 179110930, 1042020395, 2012189680, 505943629, 158748372, 126615148, 1202816866, 1001390459, 1566920005, 643838249, 1347615091, 23688521, 1849842488, 736479380, 670070270, 178803816, 1083513398, 1842698272, 1303837968, 47464206, 1198864053, 329704768, 544780325, 1772479016, 518667643, 92618565, 1471766074, 712068933, 348805997, 334840392, 1584867799, 1374249147, 1794767760, 727606705, 1499031497, 1090146291, 891821407, 1420073041, 78481108, 4014180, 1734317828, 599918568, 1485564812, 620790409, 1362087414 >>) @@
    (<<2024, 8, 32>> :> << 867265136, 838384655, 963946992, 922252082, 1622487465, 1498747080, 923065653, 280974417, 478476964, 1240490933, 1874466243, 353753630, 1380690741, 1572861378, 897704076, 2072046780, 946398115, 1779619797, 1148204738, 572390490, 2023096042, 1298425232, 1584474539, 317192937, 1948823245, 1839525323, 1266085865, 975446267, 1282391156, 2061379055, 774217905, 1638912592, 2110611736, 1673752162, 2052748114, 432910419, 143438143, 1907833917, 1330820891, 64517140, 1876125050, 703971875, 1340707780, 1976759314, 2000943747, 1468776728, 466922581, 1381573750 >>) @@
    (<<2024, 8, 42>> :> << 802946907, 272686223, 1900140088, 1383109343, 1609218009, 1569057210, 1318264869, 1163711842, 1420881705, 2046292649, 1979503098, 1512027295, 733557982, 1591125573, 99330056, 483748622, 1187269756, 971098544, 410890079, 1283717912, 1855490070, 40411956, 2090241039, 25160462, 207959651, 320396779, 58903030, 1370748577, 875150743, 1623292207, 594672835, 903015944, 2053055106, 137168873, 816652994, 1740649456, 109502937, 1624571388, 1157440319, 769571573, 1529199676, 1336085267, 136269617, 1190382417, 795327457, 2144804235, 912433079, 1681867252 >>) @@
    (<<2024, 8, 44>> :> << 336943085, 1477397975, 942287591, 1949374104, 1357362694, 151422055, 244914504, 1719332103, 531753852, 2118272396, 1712394487, 831482851, 1131315405, 1781200247, 1435484091, 1901610233, 1404604000, 569623764, 45356973, 1385249435, 1271987120, 949268899, 619196529, 662081431, 189257862, 341186779, 190663775, 1141322269, 1020346940, 967875213, 856622649, 2074281775, 822731852, 1848658726, 58131105, 1753290846, 1891858707, 1292063261, 418296205, 980369637, 823189801, 304907342, 784625301, 759801330, 1198435933, 2051557347, 1967553644, 1574200539 >>) @@
    (<<2024, 8, 60>> :> << 197641940, 1166296905, 1743999971, 886770843, 916794738, 1304091864, 1173548334, 833293796, 733607836, 52444386, 527345007, 1895965790, 63160914, 959131822, 1514452137, 536713773, 1402842477, 1126771131, 482650267, 1047155619, 811123161, 114174424, 1400587019, 1049184278, 572007195, 613502104, 1983845441, 1836072488, 1168351193, 1702795887, 1511996648, 1946371718, 1484097077, 1483716382, 1895827778, 963903808, 1717227081, 1852713548, 1814811037, 1867645349, 109522316, 873008471, 511312858, 399538980, 74282759, 253591283, 815814511, 40270300 >>) @@
    (<<2024, 9, 0>> :> << 365551117, 1604166528, 399350156, 1909485024, 13766115, 667321809, 405966309, 842278097, 790931490, 624916381, 1120102723, 1904050308, 314471622, 598561197, 162262568, 125994644, 207475391, 1635164268, 974680928, 764949503, 295572631, 1503743115, 1774421005, 1629147856, 2119293848, 2057138152, 1241790275, 925404943, 580221665, 2035966189, 532775124, 117066909, 695354054, 491431779, 381121049, 1030824677, 901669584, 1300520562, 1819487025, 633281432, 183775553, 676575312, 652501870, 606614935, 757398930, 565982313, 2127858718, 623153690 >>) @@
    (<<2024, 9, 1>> :> << 2051454047, 850530751, 2027197876, 1094617267, 170215622, 759550641, 1664911894, 1874343551, 1254677127, 1613161554, 1244501187, 149231715, 1900379577, 877613665, 1530308131, 229030936, 842059910, 1390457421, 2002817132, 376940306, 397639888, 1170778302, 946314054, 740877916, 642381449, 2114705865, 1003243675, 2008638555, 1541632151, 1486955770, 693748624, 1878181218, 415892499, 66499855, 1284771464, 839331748, 348226319, 2071792021, 1685147220, 1678986166, 1493166048, 208234912, 1615557990, 103411354, 331555439, 1392761387, 50334557, 842487490 >>) @@
    (<<2024, 9, 2>> :> << 62792903, 1624847142, 869219215, 1356750476, 147200623, 819257458, 684025904, 1049594737, 983311746, 616942443, 1148922780, 1152083114, 1497388538, 932840684, 25143986, 1282959693, 1361334603, 1259698142, 1342732506, 285632322, 881592665, 1468122019, 338887718, 1947077182, 1856582118, 514161231, 976862427, 836221806, 139346637, 182223596, 1216465407, 374516687, 1883872544, 288471823, 1115002080, 967132141, 1699149872, 1001488067, 166435013, 299712207, 335445203, 1427118331, 379728322, 583311258, 1296898863, 1889971651, 2122468986, 1734275232 >>) @@
    (<<2024, 9, 3>> :> << 94718088, 1000613362, 1793604965, 1529921529, 1100557261, 2140101225, 1660718670, 266511679, 1440067363, 713464165, 1635055797, 1130363378, 279038119, 576996114, 1830677802, 1208243785, 940880820, 51704249, 280087805, 833155153, 1463219646, 1984742711, 1679499982, 2142801925, 1268186334, 636568130, 1980666890, 1882634913, 303430887, 500263179, 1508669469, 500604118, 14782420, 1220993976, 719888125, 1241280766, 1199124070, 561675749, 99997008, 435233492, 648395540, 1446438607, 809444083, 1115983478, 150362324, 1143311631, 1091281185, 80026023 >>) @@
    (<<2024, 9, 5>> :> << 766435276, 959687822, 1435313334, 2015801521, 1126023066, 1185155406, 298850732, 1166048550, 1047098389, 409593630, 1482512125, 404132824, 1351898652, 1740249187, 2031471619, 737844581, 1907731622, 1779266500, 790216747, 12582760, 33479881, 1221032195, 2108654921, 39064884, 2052407534, 186044660, 264236482, 1910017450, 1845004555, 526980389, 921354510, 951657992, 1719132601, 1384252979, 1043052017, 948338248, 910264502, 749564693, 2118096640, 680382170, 48814070, 163004950, 948655290, 794598270, 197368102, 68586542, 274729795, 1385423152 >>) @@
    (<<2024, 9, 6>> :> << 1425444147, 1543520368, 233362889, 606165267, 1774552526, 1899342442, 1963574073, 851037703, 2094918896, 306513935, 1162369333, 294401244, 660400014, 257573395, 141437265, 807205213, 890776069, 24685490, 1886754588, 1251987346, 1502618683, 893414524, 1055731176, 66059249, 63990165, 1105189074, 213830679, 879117754, 1963185408, 50504582, 603181485, 1139002632, 1398453206, 1679343098, 1116782001, 1323639003, 314638839, 681256040, 1535531499, 275757167, 599671585, 308141866, 698310061, 1463258240, 1712727159, 1898954854, 1969226173, 963799635 >>) @@
    (<<2024, 9, 7>> :> << 401983016, 278895354, 199054849, 1866605593, 1710742852, 1652282997, 1205367944, 913126246, 1267824027, 1591229817, 1335977410, 1544362960, 1596367675, 495570372, 1799793390, 2050666748, 1317106522, 1266379972, 1330177716, 139868464, 245131456, 89138110, 195990482, 916311887, 1404537237, 931296009, 1575784741, 1502747523, 706709751, 2042597004, 771167060, 100906137, 1425592350, 1374299038, 699896652, 1508278410, 1745126302, 1435224519, 1156618733, 1933844879, 958468698, 246265111, 533703494, 2125939043, 1798931164, 764744961, 130699643, 1300222061 >>) @@
    (<<2024, 9, 9>> :> << 1979722507, 1205092729, 807512416, 347120882, 264200367, 2044269855, 737567656, 1300398589, 392620964, 788265484, 525048987, 1481946164, 1653318582, 180501254, 997052156, 180393265, 1552421164, 1800943736, 1483811517, 1078276133, 894310830, 1132506508, 757588932, 1642988488, 1804495447, 2144041354, 1792137118, 1903607768, 408874262, 255134545, 68644483, 703339641, 1682036647, 837920670, 1168662289, 1712291707, 130065546, 1249616280, 448055183, 1604168414, 2016382273, 709642861, 282129600, 2066966894, 23066745, 132834476, 1700427516, 341394945 >>) @@
    (<<2024, 9, 10>> :> << 1450656474, 1041050064, 64180308, 1625477676, 1223010984, 1276048004, 71329281, 639966460, 1128314831, 1294710415, 1268374756, 1630491063, 621024720, 262276162, 572987557, 1213690036, 534040165, 602824907, 371248423, 113633933, 1289618075, 199382626, 702455754, 970018921, 1809558035, 1710090678, 842085045, 876552819, 987514129, 1125297248, 1267942616, 1657367251, 1589770302, 2139440460, 1618282423, 793807981, 639295385, 340618805, 58495582, 1803888179, 259412688, 182476909, 567809884, 308437200, 1118187775, 1858823023, 242146147, 1364583250 >>) @@
    (<<2024, 9, 12>> :> << 1531428498, 265643120, 1008953668, 748117106, 1440917596, 512778480, 345790246, 919471941, 433987591, 1324947137, 439681680, 99963636, 1074888597, 562555963, 571617659, 255790668, 1462079578, 446635478, 100258405, 1125157803, 1325764218, 1182506023, 277816981, 1321379674, 1654241915, 1235554573, 600531259, 1109590030, 1913475735, 1698372245, 1125143693, 1192291373, 1302115482, 1160902972, 572449124, 1366590982, 33955492, 1499175393, 71672520, 42319703, 1584660281, 34318299, 1086944185, 852992200, 1106274264, 2035771825, 775438472, 531187143 >>) @@
    (<<2024, 9, 13>> :> << 1322731711, 1727122841, 1313452589, 2077208064, 91976823, 38714705, 499414566, 23917124, 1173881409, 1715129846, 813460042, 54687137, 1322361686, 2098921769, 56489196, 819663206, 502452542, 1781926267, 2024640916, 727767427, 2098464113, 1455085749, 58231112, 1059020103, 184102777, 116507299, 890758663, 387915065, 2011027669, 66038469, 767398266, 102268394, 595488168, 1853152666, 2030900295, 738257865, 1093765055, 1837380155, 140051011, 33444729, 1842848115, 863786591, 253162938, 1434220406, 398272724, 1343296926, 1023805868, 1888516835 >>) @@
    (<<2024, 9, 14>> :> << 106685064, 860551640, 653835019, 2095503566, 2082389516, 370515302, 2090704246, 2096521469, 233792598, 952981581, 854762651, 1459515001, 837660818, 961693094, 778063876, 2141566179, 792270055, 624939811, 1192876888, 334236275, 788362170, 808103053, 1060323727, 1585149270, 186764821, 538381798, 2104775956, 1377845765, 1065169211, 573563311, 353274427, 193280478, 2016297853, 39381636, 1753641597, 1905455376, 1298094735, 102989493, 1339895390, 953767041, 791506453, 774373296, 559168030, 784763573, 2048718075, 1840785095, 630512452, 622832882 >>) @@
    (<<2024, 9, 15>> :> << 1127619569, 1957732580, 808574600, 2147270788, 788310771, 1296240743, 511037397, 170380487, 1143935028, 519913147, 1069061238, 1664709542, 653920786, 803980640, 918336140, 629038886, 917346609, 2095511130, 1488610022, 923839858, 248404836, 169523554, 1543516656, 754563954, 1641272773, 1262516639, 1223417182, 260004054, 617173542, 507389125, 1176932966, 267467587, 2072269301, 2033780582, 1127234768, 489299696, 1888191487, 525551996, 305635597, 1154026940, 1181009410, 277822796, 1946584248, 47060352, 1206843323, 578474167, 1097966918, 707192031 >>) @@
    (<<2024, 9, 16>> :> << 638276660, 534224947, 1420947714, 1445763977, 1041503379, 129485151, 1101965724, 569279798, 322780959, 1873167998, 667569374, 2123369383, 1625621638, 1896227881, 1523319090, 1254471523, 489623251, 330464707, 549122711, 1205429797, 1937045259, 611043938, 217773886, 555441203, 696599780, 1656575741, 469790427, 1705689351, 1877350463, 1500953382, 222650370, 636578864, 861262378, 372341334, 567241384, 733564319, 500778195, 1838853526, 1334490541, 1342316598, 622721190, 619999730, 126647923, 2030484158, 1559166338, 1507250232, 1757572153, 1881186966 >>) @@
    (<<2024, 9, 17>> :> << 84947008, 71315758, 448589181, 847603373, 2030055802, 541788128, 1821666672, 717801029, 1949692353, 549458634, 1203989464, 829698380, 1684748853, 653489814, 1096252084, 1739001469, 2053059709, 64867030, 1545684244, 303247071, 2071066669, 1532880465, 245255174, 1055563602, 62089324, 1589522168, 1893696453, 83215460, 2007517534, 1857159348, 563695952, 1008843870, 1329962555, 173500628, 716222579, 817329412, 1479441886, 246620296, 1255613543, 113880683, 639748325, 781290005, 16403101, 2097856048, 438447297, 396083266, 69806204, 1685667550 >>) @@
    (<<2024, 9, 18>> :> << 45529574, 840793388, 1627186939, 1572876008, 1020102851, 1063698171, 1343822325, 1067447760, 891996007, 1280008354, 1871636214, 58784334, 690475077, 53540665, 228010476, 1258100064, 1250215992, 871929445, 652927358, 2123333492, 123908388, 1765981834, 270687934, 1544988537, 1243145557, 1083272574, 672271058, 2117084690, 692146406, 2064239761, 2104442024, 2110615442, 915804553, 761576459, 1933398017, 370458769, 2021061881, 1567899560, 111085296, 578300789, 1790549562, 1311300959, 1283690623, 680525354, 1568337355, 934376987, 1480617733, 771262707 >>) @@
    (<<2024, 9, 19>> :> << 946178806, 1190960811, 1232241592, 886500906, 267908242, 881537235, 594355955, 1215951761, 1931750746, 2020795145, 234121795, 1380004880, 799608561, 2110146335, 1107863459, 537533432, 1775940506, 1813671923, 802411763, 560067485, 408372743, 72891770, 1541723950, 1577263322, 1998154074, 630986868, 1209214347, 222887227, 2037114809, 1737016261, 925938489, 292849276, 1546364860, 592400773, 511838171, 715056865, 2120060790, 168599057, 550530693, 2054291200, 707289518, 171983739, 463284390, 816455530, 229119798, 2064785061, 1028582472, 634416834 >>) @@
    (<<2024, 9, 20>> :> << 470205376, 1393133045, 233895411, 829583546, 761191504, 593080946, 1875244972, 387098537, 1594173360, 1048218489, 232873728, 2058410851, 332895837, 1046684601, 1324426965, 1154351885, 964212860, 11653354, 193042033, 1706567310, 2096809058, 257613072, 431064501, 1397439228, 1374523849, 1790175112, 1005048563, 1292901117, 850689022, 1180035983, 803869534, 1982461385, 844836287, 1455362523, 802136024, 301201926, 1635582682, 1042283799, 237650885, 267981265, 94965076, 945381988, 1966480409, 1568036451, 1924045771, 2057953335, 690828672, 1161949177 >>) @@
    (<<2024, 9, 23>> :> << 748103736, 2016398961, 894408529, 1997164341, 1624928874, 92616946, 225509446, 506429049, 451348837, 620950129, 840520886, 489464611, 1571024950, 955581820, 1993455864, 1649189286, 488341284, 1116010624, 99924164, 1483282024, 1873869132, 2113668271, 158942993, 1928055038, 1562321932, 635023163, 1062570923, 645612581, 1863641761, 430040811, 332808541, 352824868, 171028623, 1009070234, 334417477, 131725868, 820199238, 410731181, 101737965, 86532532, 1373844353, 723869172, 143679868, 1830744947, 514861774, 332548844, 193040417, 1039438128 >>) @@
    (<<2024, 9, 24>> :> << 593028138, 471408220, 1113858739, 2108168667, 734215486, 206814031, 848107464, 199296025, 260073844, 1114691541, 894723111, 1401492256, 1412160116, 1777845450, 1756823797, 1878068575, 650879921, 1264019592, 2116154784, 1742175410, 502171936, 572082039, 1312695400, 92841062, 394111742, 976117323, 2084709627, 1145142173, 201984560, 2024654373, 1194220079, 26771143, 1159890854, 506883297, 1620708215, 258436387, 752363618, 878332064, 406076358, 1172939423, 822672868, 115715497, 783598344, 1113941588, 1089317174, 2118301746, 1978083280, 1000078283 >>) @@
    (<<2024, 9, 27>> :> << 418244648, 881099589, 467405250, 1866182667, 2140540970, 1452162637, 968873257, 787863018, 750478429, 65433749, 1761760924, 1443862417, 1385493772, 1090243416, 1096312313, 1068951848, 1032025497, 1670078978, 269979494, 1859268390, 816197809, 2077682573, 1214569494, 1173936573, 1039802938, 165262637, 543912478, 1965094613, 304787133, 1747466292, 1673270000, 137396341, 920450553, 1206367928, 2081667912, 1771400331, 94545116, 1329559462, 868116782, 2078113433, 800607734, 635571058, 579263365, 1649577694, 1350872865, 1723992334, 985002299, 101857298 >>) @@
    (<<2024, 9, 29>> :> << 860915789, 1680289488, 1251961413, 1379063361, 747503999, 404014766, 84755011, 2134630293, 1304663835, 1248019166, 592411015, 748612697, 432486311, 2127222455, 745240324, 957906246, 413012121, 2115901092, 1226020332, 1223198951, 1752557724, 279142068, 1240598371, 870015821, 1821480412, 702263042, 1494697476, 638154263, 397847001, 1948309465, 304159751, 1584996281, 1016931307, 450712988, 826658592, 1564356239, 870869685, 2029283159, 243404674, 1572660603, 863326451, 47539395, 1575499187, 960811389, 599194638, 1077844575, 809873231, 1875435464 >>) @@
    (<<2024, 9, 31>> :> << 1765420467, 15391197, 1191864621, 327057650, 296621282, 990006443, 340865587, 805124713, 1261089567, 914839764, 1373878850, 1012039465, 1177986930, 1320841657, 1515989361, 706566606, 701780349, 1884791673, 2057585070, 212482201, 11565703, 447934317, 413864229, 1431664754, 1014804833, 1417120168, 2063884371, 930870796, 2054328632, 1733929774, 307580595, 1163990097, 100964947, 1989341739, 1366519503, 1606496610, 1318607055, 1401225284, 152526687, 187203620, 1142297064, 1012121963, 402529283, 488942183, 1265593518, 955283474, 1058081777, 1827100577 >>) @@
    (<<2024, 9, 32>> :> << 1559708483, 37243835, 815667499, 389467879, 1404194141, 1254574455, 1501169108, 726470273, 1139554732, 1032193243, 1379631325, 1067963544, 578770003, 383110229, 318218180, 119778893, 189098153, 1946884217, 1334180155, 326255093, 528655389, 2086456118, 1792368494, 828268760, 225256042, 1453357199, 150791086, 2128236781, 1855340373, 963011244, 2026232134, 2037587779, 172148082, 198095118, 146275197, 2023556408, 1535205816, 2022243994, 2053989948, 818969756, 764913377, 703953715, 1841197187, 196185255, 1324023165, 1826388826, 376866339, 257015995 >>) @@
    (<<2024, 9, 42>> :> << 497341041, 677312586, 1338747653, 1131619600, 1715487362, 44269842, 954609006, 376747457, 1879860165, 416743798, 538299992, 1635153485, 1488156778, 142215522, 238443093, 1273515187, 651555061, 1892508729, 1837818130, 1215175171, 2094929576, 1791025368, 2007321784, 915946646, 2086740305, 1292594279, 192848283, 161554646, 2115028329, 1428347767, 847633159, 588260452, 2092432156, 1732294931, 1304437850, 1070166369, 1078292534, 1158737164, 524997179, 521429013, 95705709, 1352099407, 474855787, 240811144, 1698504257, 2104669719, 2084015912, 919673601 >>) @@
    (<<2024, 9, 44>> :> << 581821184, 1335215467, 1081851495, 2057640981, 1861244169, 1261230037, 434747161, 1415607521, 1421967753, 2140799454, 2025611370, 482204656, 1704376662, 294193061, 2078959346, 31439771, 1481458569, 709900069, 646993669, 393263043, 860787274, 1963938353, 584700212, 1351243359, 114579155, 1650241019, 563458952, 1011839836, 660131229, 1727958512, 2090813893, 1198950354, 567873645, 1868505768, 1852824558, 1090458150, 1530585567, 571086610, 1000389187, 901780909, 774357180, 797093673, 1593940744, 335759122, 1927645205, 1727763880, 613068848, 1950430460 >>) @@
    (<<2024, 9, 60>> :> << 1974257211, 1354357454, 1966485591, 1531725376, 1175504689, 484659892, 559245812, 972472322, 638582035, 61385712, 1884908871, 273362263, 733178420, 1513054995, 29474642, 589374611, 580191680, 275776546, 470947604, 892690267, 1856817049, 727382171, 345344139, 1096303372, 1419807735, 285842306, 1008597543, 1843582209, 1774340180, 1042246649, 1031303403, 1332471661, 1907682240, 2097399321, 1244292438, 1380147868, 1251936494, 1583231201, 256694375, 892922987, 1115837960, 750751754, 1674643236, 660673851, 6225707, 905651582, 213118379, 1782947158 >>) @@
    (<<2024, 10, 0>> :> << 41870564, 1225932273, 430287539, 854679922, 2001803413, 273548175, 829044955, 118327672, 655625349, 77063407, 2091324332, 972705184, 1330059285, 1315817685, 575770245, 96564419, 1145730611, 1889568920, 949602593, 1700907244, 210196063, 1003566524, 2121446928, 1661247942, 1169974333, 1668454745, 1246433994, 1094124850, 209961238, 371133452, 2013720105, 1460566409, 974118864, 1435019734, 1363907801, 1023545102, 752400008, 509499377, 1566793527, 1528164393, 912993114, 2088701841, 919260915, 1479168040, 1388101966, 1178966210, 1831370931, 1407623094 >>) @@
    (<<2024, 10, 1>> :> << 96815493, 1746466833, 399498278, 1408318061, 19809786, 84745583, 1106586481, 1059830462, 1157809664, 409067110, 1758754359, 209245354, 868221798, 294242491, 2063826178, 271506514, 1474495709, 529149630, 999671884, 658535303, 184115224, 876626788, 1737087828, 115009052, 773509923, 425866850, 579202499, 175571557, 1677854941, 1386434915, 397471121, 751740600, 1386873374, 1323462269, 10071354, 1966678791, 1797317542, 1281537665, 597436943, 993326874, 453961356, 2128859873, 1768289194, 1133933260, 1265887986, 1152770508, 1784124856, 313604459 >>) @@
    (<<2024, 10, 2>> :> << 848998852, 1017136347, 15752386, 1815652161, 839822080, 1901282756, 1769148683, 1134914945, 618464643, 1397778801, 441849251, 669634697, 518863237, 367012504, 765315482, 1437194517, 761874492, 951353479, 158954191, 804487522, 468786670, 689316266, 1143721573, 731533178, 765833275, 1655309702, 1811208835, 1099248305, 392765614, 2044647455, 859131545, 239791707, 1164039518, 507157382, 2019637532, 1946145509, 1124359889, 2125343712, 1737084134, 2143193057, 329363832, 1702176160, 702649501, 1155636632, 52706795, 1933688446, 1565001671, 359515709 >>) @@
    (<<2024, 10, 3>> :> << 1378008830, 661989395, 1278254579, 251444201, 2128439526, 2034255034, 1818666253, 696603105, 1386200341, 947295751, 829101283, 1866644919, 1772886739, 1228682668, 1292278300, 864673429, 640598690, 568554628, 556429027, 1991351427, 749259677, 1975497340, 1481092783, 342537615, 739547522, 422565756, 347261760, 354295860, 246560554, 2045838767, 306236789, 1310789246, 540262402, 1341273002, 1660274954, 200762906, 2079045879, 1587630707, 1422823500, 1006502528, 467823016, 652655091, 788805658, 671457587, 1967162544, 1816361810, 14809965, 100800829 >>) @@
    (<<2024, 10, 5>> :> << 1564748684, 1738422586, 725446831, 500574685, 1248980551, 280710614, 152379129, 322889511, 1551883389, 1889047839, 2078482648, 2103185082, 255653982, 1763248287, 465961528, 184000004, 794205899, 510648876, 1624574605, 2122075860, 1579746491, 203477802, 1539890517, 239155557, 1512525071, 2097766931, 50317864, 46551901, 2014568197, 2109689544, 1419018015, 1114966463, 1668282734, 2015586127, 1574259479, 1650284893, 1530149892, 1460270061, 1892186814, 2021130166, 299433068, 2135704210, 1947383054, 971258437, 450400405, 2121439804, 2135732459, 1100377441 >>) @@
    (<<2024, 10, 6>> :> << 241861739, 1506887147, 2108605652, 348815244, 1832426740, 1947228279, 1747358556, 684407420, 1817038350, 159257754, 873219543, 23255463, 330675772, 496788923, 971903159, 415531678, 1172649992, 1821054350, 1881867797, 1886515764, 1864135962, 1250902467, 298280248, 2012332769, 1896284894, 1540858442, 1537789056, 1470487154, 1029312620, 212249643, 2050963379, 1750503931, 1302988730, 461918760, 20752060, 1528208652, 485022418, 1534324751, 1698374081, 1651467966, 823422273, 1373581373, 934765060, 11075836, 332698459, 665220564, 571755354, 827917069 >>) @@
    (<<2024, 10, 7>> :> << 158143953, 1419160682, 1960059054, 295290196, 25782863, 119007711, 1469181402, 278406608, 1790001942, 1782607097, 1817686723, 987806427, 309843570, 97302417, 1042653745, 817540032, 206100157, 2055989436, 1085999557, 140199307, 439966673, 1878696871, 585279760, 1308600744, 49138441, 1735830951, 1527239598, 1801961049, 1890600501, 1600157999, 935730635, 2040253446, 1741501489, 1068409732, 1317402250, 1250644213, 1495132837, 110023087, 140567024, 147029755, 949617968, 1360120823, 50810641, 459801502, 1986560150, 2093383286, 1827473047, 1845915924 >>) @@
    (<<2024, 10, 9>> :> << 571088075, 1198045334, 200711575, 755566289, 457299374, 1146928392, 473878058, 423765451, 219976788, 327678505, 502448545, 371695547, 1941201851, 531796650, 622938167, 1620793146, 411356964, 130359707, 869972449, 1889050134, 1221073618, 1966656308, 1394976791, 1178267219, 1911056550, 167504640, 1513483804, 356245622, 2089292191, 1517268019, 1151509384, 1494652927, 676370723, 1306663939, 688602821, 162848135, 314569509, 1202891698, 1387815551, 2122732262, 20541733, 583623207, 1022263640, 1534852012, 915574374, 213337129, 1404920825, 416801819 >>) @@
    (<<2024, 10, 10>> :> << 1216877036, 64337021, 450998962, 395974645, 1507038325, 1399121209, 2129737504, 1845880951, 137544513, 320174110, 503684392, 1320837810, 1747075712, 1868699780, 1464880061, 1107500374, 783030054, 476443747, 62289385, 543335723, 483882487, 1175829921, 2074448988, 1004613670, 1199909944, 415959958, 774369952, 930982421, 93164335, 1911195548, 28478471, 1531354225, 1034764739, 129148681, 717382963, 1762794109, 977981843, 209192741, 1154584354, 1710666213, 1129449350, 1481948085, 587610461, 859349977, 2138906227, 1764173240, 1954816770, 51334121 >>) @@
    (<<2024, 10, 12>> :> << 1517227999, 1687521641, 591277620, 992852150, 525396455, 1324155798, 650900327, 1310497948, 1421856015, 1299049085, 1835830145, 1835663661, 1551042586, 1031919196, 1369145795, 334664728, 755548168, 1516507342, 1177804634, 557545525, 1951057632, 1396303408, 323303056, 719718402, 1141663709, 1744136611, 1869137497, 669659240, 1150557175, 1420665312, 773439574, 2088536573, 1595673038, 1753253267, 1990571232, 1049627584, 1100962330, 731345315, 811582398, 1850287013, 1062830553, 73000559, 2099756139, 1002575859, 1299642470, 1229721791, 892604655, 335284884 >>) @@
    (<<2024, 10, 13>> :> << 1406068302, 1590149303, 1681615918, 1178537147, 1765448252, 261698529, 1713729807, 843866300, 2139662465, 531706846, 811906511, 1272685469, 799013351, 547819961, 1249299570, 16699296, 1730052908, 1101792743, 909263235, 827149988, 1387486199, 360587157, 25647621, 1337359761, 54192952, 1568902850, 1188240119, 387957533, 12160180, 657582797, 1857593349, 2056684112, 1175030045, 599027768, 962077990, 2127160720, 1501698199, 1495562937, 1822303379, 1904833955, 921110551, 806869525, 1570755747, 1205772547, 1343304840, 827911353, 1063811611, 1569727781 >>) @@
    (<<2024, 10, 14>> :> << 428811992, 677691974, 1496447889, 654265945, 1647745569, 1774192694, 1263915326, 834483058, 17697380, 1299858381, 1146317944, 796205358, 2084736436, 514370169, 357801546, 1728198624, 954390039, 1434931180, 2048972533, 1697703266, 1716768961, 1740525494, 261961098, 1797524777, 873400764, 1063803282, 679365522, 1112068981, 491468383, 1594438778, 1215806491, 1355476574, 454949879, 767581174, 1241858271, 30884477, 1836295122, 428598692, 407799048, 1543394425, 298234251, 2075411966, 296898849, 1009038790, 1756204460, 926047143, 1003544100, 389484001 >>) @@
    (<<2024, 10, 15>> :> << 439857121, 1361094442, 524272262, 815760902, 1775484678, 1291920499, 183647588, 1186386612, 1623255638, 1008809086, 1771579500, 358683722, 840448579, 1394546942, 2057822044, 671020013, 1902063747, 1867676735, 545358896, 498238567, 1765795146, 1252605227, 403794421, 559457110, 1918063360, 1959184796, 195655674, 1592708128, 1749785202, 967668201, 1076870152, 1762786806, 1541077323, 1181632439, 950304949, 1614849405, 1726785910, 756010105, 453719213, 1232945643, 358360304, 1178454339, 1090849330, 219223567, 2016476898, 340226649, 339095091, 1277636668 >>) @@
    (<<2024, 10, 16>> :> << 487270012, 288893565, 58407225, 555534346, 1616526819, 577272683, 1812044890, 1086996507, 1442693908, 791433569, 1154305543, 1485715983, 1281100663, 1028899405, 1117122448, 736185312, 1758162034, 299980217, 1601480427, 1380019244, 318868910, 593755350, 208431034, 1130271125, 725072075, 797102081, 405264182, 888023391, 1485558610, 739501899, 1561843213, 571602557, 1531484117, 785126422, 1292221315, 1016029087, 694373347, 1853726474, 1345547007, 1430698169, 1132078429, 1160173388, 2016543635, 1053555921, 1152974088, 1458667889, 1923066031, 131365614 >>) @@
    (<<2024, 10, 17>> :> << 1503445608, 511973713, 1030018151, 1557014607, 1591600742, 458093294, 533701711, 2025965875, 1319881650, 1234611305, 1924981021, 1590659297, 759723733, 315615702, 1297336105, 2106504125, 1189937260, 1491098929, 1115309586, 907799936, 2108550601, 1365529333, 1877629502, 427470004, 531989150, 2096620496, 1104257992, 65433188, 1096013846, 1111356795, 1696945162, 1688341387, 1406264725, 1706208466, 1316641057, 2010610039, 433000599, 730404781, 111160583, 854578712, 1139299645, 803598860, 2031132867, 900103998, 1594019476, 836882873, 354381225, 1730960941 >>) @@
    (<<2024, 10, 18>> :> << 808703964, 428451444, 636637462, 1867950018, 456870350, 653367137, 1352409828, 1164442057, 1967868474, 1515035121, 1225575832, 232252623, 760900306, 1858349790, 1041999163, 1510360265, 1024694396, 1774525680, 807078997, 1698692280, 357344673, 1930981976, 1611468973, 186971947, 1916147130, 19494859, 1646497640, 623658281, 1260922935, 2001082854, 210923530, 1308649074, 1470240626, 1450624753, 1750092603, 105710348, 1856664317, 179359773, 2101593522, 1039008186, 750731935, 1480240080, 1466891640, 1937921681, 1438363234, 577488535, 1027477227, 1450772773 >>) @@
    (<<2024, 10, 19>> :> << 1765105831, 423597129, 1802070020, 1494144593, 676323726, 1653085955, 1939992519, 1063938198, 1886320237, 1279826684, 2139355876, 734129455, 491298394, 954492920, 1906768573, 1733347603, 626893012, 2002003434, 2044156130, 508908249, 1656441596, 847938064, 13283143, 1823943270, 281193504, 1866182748, 247279283, 894743029, 1628681606, 84829849, 150057674, 1410150422, 532576618, 771042052, 1108773318, 1719102679, 772327194, 511331119, 2030898730, 460052116, 312871430, 1460304657, 81898955, 1244533885, 1216232722, 1606472230, 633769803, 1448261124 >>) @@
    (<<2024, 10, 20>> :> << 1711977911, 577813425, 1849360671, 936325347, 482289247, 271120340, 682600506, 1751368145, 1353351404, 461510147, 1629942959, 859853862, 834871398, 4499038, 1757425815, 1781782160, 1942533358, 1896388974, 159075008, 1187197955, 174107565, 903457945, 1186301191, 249274598, 600584982, 572164968, 113418897, 315951984, 1752445202, 1107092113, 1992030081, 1378244283, 1727148948, 130807387, 1792815162, 1792160484, 1718771288, 789415904, 610275963, 954406510, 1726359974, 354186760, 1837750471, 1435230622, 417371273, 601784258, 293753172, 1167282865 >>) @@
    (<<2024, 10, 23>> :> << 1063452877, 1565214934, 1718476651, 1885725237, 645436442, 1568034217, 76394499, 105678271, 1611068500, 1171124205, 1746042430, 1010380705, 1702349886, 100324679, 652329246, 1824834649, 1450138577, 2015403334, 1979860059, 1230371990, 1372476871, 1643783936, 991321447, 1044533607, 1301779502, 1033075689, 994591878, 103914434, 317028229, 1345448913, 115040977, 761320662, 1224171669, 1020301118, 62657983, 1607444687, 2003690775, 1772707736, 261160840, 912572122, 1982032753, 1201908129, 1683473142, 1587363124, 156550203, 847780757, 1984558993, 50973827 >>) @@
    (<<2024, 10, 24>> :> << 1845754632, 1394441058, 1355940734, 557087317, 1587899432, 39320214, 2091899262, 1908111358, 1765996098, 39148560, 1574689748, 191634264, 606642581, 591621942, 338828390, 1199534433, 1710492359, 1748550549, 1689583482, 1419978830, 2134245704, 1188918257, 610985894, 746961964, 870162085, 257057010, 1947636455, 1190733760, 13637519, 1769538190, 1876039896, 209933154, 1513296918, 1651834372, 118266703, 273554814, 1544229229, 2117900676, 1699318800, 1484385413, 960615579, 677209343, 1354637820, 281999672, 763838739, 1371441828, 321655264, 1947083419 >>) @@
    (<<2024, 10, 27>> :> << 851976111, 65236345, 2123779650, 960895077, 1119660121, 2092494816, 860166906, 1628425971, 46595110, 718534536, 1641958126, 1155940907, 2130348420, 1110022090, 1567344692, 1912513199, 871018155, 1991789383, 1122808150, 1843205647, 1274042790, 1988199044, 1347224801, 1327036329, 1979504112, 1065271025, 1852939105, 85043695, 359204982, 1651960123, 1684872775, 655134199, 1257638103, 117721683, 1946381034, 1440170761, 730556235, 1882938850, 2008781742, 1448133917, 2080556274, 1549640136, 2034907139, 257764234, 679075704, 142709213, 1811565413, 728159058 >>) @@
    (<<2024, 10, 29>> :> << 174537290, 1466014460, 716893875, 1993047777, 164997520, 240280535, 587852589, 2102623581, 2145668865, 471694745, 715768419, 1802288398, 1791255469, 277337963, 1481306791, 1368741504, 1757293981, 588188716, 55908484, 879645393, 1014666432, 1460010350, 163531801, 357166874, 2027488493, 1187805613, 2058836571, 1793103120, 2049583355, 1696963441, 1480267652, 871697781, 826504928, 1788921300, 624446479, 1380511143, 414663409, 402075822, 261667065, 5149101, 2113941494, 2000375311, 2002853239, 911343391, 323954951, 168641520, 250805368, 1553316858 >>) @@
    (<<2024, 10, 31>> :> << 1914473863, 1239220853, 426065715, 424179117, 501975993, 649266197, 2082511103, 2019631718, 2023134645, 929736318, 1099574957, 1899489785, 459198194, 1386865866, 854958976, 801123281, 797521132, 1573134214, 990430759, 626830955, 1424115500, 1123193431, 332988242, 788856664, 806187565, 1071918334, 873519035, 749297910, 85415984, 419917470, 62140890, 910314676, 2009295581, 2134675694, 278170903, 1700248296, 62085884, 1114941277, 798274760, 2059916486, 1461264111, 900378596, 207028651, 1403340517, 1942147786, 1991282335, 1261967301, 303457391 >>) @@
    (<<2024, 10, 32>> :> << 444054184, 950642912, 542944467, 239713704, 1970076310, 115639678, 363939233, 913341885, 183874399, 1940983999, 1865873531, 1456469275, 1007497955, 1623063551, 185005975, 946673446, 1514758281, 2054812015, 180126593, 901055386, 1969687487, 1963773060, 412289411, 1027754618, 742027076, 560398725, 861253294, 1270487125, 615063599, 861156366, 1783730689, 2087088999, 1278596390, 1103507372, 811862671, 533681583, 844275417, 84437395, 828893265, 2109280927, 1256346813, 1468785474, 591924599, 444703969, 331412863, 1384578393, 405048270, 1980347823 >>) @@
    (<<2024, 10, 42>> :> << 982500496, 1036729948, 1732365779, 1740481596, 1325619556, 1510676605, 1007179217, 1619580749, 818185880, 697609436, 976359743, 1548100480, 1473562064, 648860398, 721372776, 1553884562, 710428226, 2142390542, 1930946075, 1190655168, 1419950610, 2030124313, 1803100067, 2028469372, 241776002, 876554124, 970140964, 1591096129, 780932887, 999262991, 1465301469, 831635819, 2046898880, 1229309340, 813075339, 88215088, 490382358, 395187966, 124012565, 1259823194, 11562077, 1450651711, 1005808082, 613016856, 3923221, 358220520, 533816706, 806558869 >>) @@
    (<<2024, 10, 44>> :> << 237304353, 33838109, 1496037343, 247159191, 1316207586, 1134314778, 2022608539, 1618212919, 885950066, 1247803236, 475107501, 1661119976, 1859479218, 355003482, 83028974, 2127544392, 974474187, 805428150, 1931573628, 25922719, 1959743815, 1006614043, 1121381350, 883485114, 1491787666, 781612041, 511841306, 1241734089, 2100501044, 521761177, 1729672985, 281572551, 965947, 785481010, 1833833929, 606440460, 902517956, 1412989709, 1172500539, 791140053, 1664694473, 712495056, 1293702466, 570947740, 256849281, 775619042, 1357943761, 1707496664 >>) @@
    (<<2024, 10, 60>> :> << 298271641, 6448468, 562722435, 630338308, 1668523981, 1637220691, 326181473, 505859354, 633028477, 1977543117, 1711331680, 1258568017, 2062198691, 298264768, 1663586269, 215033177, 1107776028, 1598324184, 313731912, 1922522913, 1465821450, 1527417038, 2032954071, 1656322028, 1870429202, 457473646, 1163643454, 21566585, 2041609307, 1640621638, 2120679396, 1810041464, 1209863142, 1863155378, 542536882, 510413790, 958056503, 358325419, 737838648, 475450228, 1452691484, 1525437412, 1674510689, 180574480, 1407408937, 1115733391, 942638770, 1606379881 >>) @@
    (<<2024, 11, 3>> :> << 66823788, 1287873962, 452154172, 22836953, 1778018943, 149576848, 7085570, 1642436008, 173611481, 95471637, 515790876, 1244388151, 910311329, 1309593688, 661640438, 1079189022, 533588708, 1919167967, 1594157890, 981473269, 2096775282, 1141535301, 1699608292, 356811212, 593685379, 449792067, 884169318, 765888010, 822744768, 894151864, 639973572, 217000881, 1912593416, 262043469, 563974403, 1185586354, 1228834144, 1525006656, 796813188, 680362559, 345368719, 196664922, 261650809, 1965902437, 573111591, 902775425, 1778649415, 509915549 >>) @@
    (<<2024, 12, 3>> :> << 1513621981, 1622539223, 2061401072, 384211059, 423524706, 1690388588, 1563841260, 1903467168, 1555451775, 125185812, 1968153723, 624659626, 952785306, 2140559031, 171314588, 520911235, 1730617387, 1433320999, 229679479, 1962429386, 1606714869, 1312324987, 955814695, 979991293, 81794502, 1282271683, 1969750899, 40756931, 2004685884, 189086146, 520862184, 1620706707, 570248454, 709482032, 458744825, 793295648, 855849994, 1924282932, 1155272423, 1480498499, 216306779, 1584459930, 1114208809, 241698484, 2087448707, 1614369368, 160440186, 684676924 >>) @@
    (<<2024, 13, 3>> :> << 1634676359, 1147373109, 1471835112, 401938726, 233276017, 1251169251, 1893106334, 1669156060, 1221602180, 659417268, 1921791894, 521072944, 545087056, 1905246455, 1178272585, 587730577, 425253432, 138262483, 900874763, 696277755, 601154275, 1253296376, 1012595518, 1125729781, 91731042, 1774464085, 1093276983, 653151244, 1055999216, 98323510, 385760029, 437083146, 1458497773, 1719362471, 1785849485, 1720993723, 118949270, 2081434000, 2074772630, 359114133, 1923885917, 1626244414, 284106392, 1314465685, 763912555, 1005349803, 170950528, 235152000 >>) @@
    (<<2024, 14, 3>> :> << 2115265897, 996009654, 736842855, 2029470587, 1487306719, 485673149, 600510789, 1614657696, 216501428, 316326248, 1159292967, 1501700742, 1014479275, 653846089, 1594460449, 2112794092, 1802308977, 847238013, 2034189213, 1037481566, 677316863, 885214948, 706347871, 1616576126, 327100836, 401794334, 1557601366, 434930238, 1256560578, 493353903, 753380827, 603633789, 2077293250, 1260420952, 1713589539, 535352765, 725493097, 1628300599, 1384166480, 257290094, 835948356, 763745921, 128399883, 2026358182, 1775669671, 1488209603, 808510076, 1763990013 >>) @@
    (<<2024, 51, 5>> :> << 1444843712, 913016198, 980962685, 669086928, 1440218934, 1544614606, 381986662, 1184862806, 257448453, 2034684519, 825711909, 1101841237, 1014489688, 594068679, 1659285788, 1525546124, 1200488088, 2119198596, 1398964681, 775061087, 1654337041, 1828715278, 1387548176, 1992993343, 453606234, 512178904, 1472067428, 10710269, 2138262290, 1246212475, 701135662, 194037788, 1144130971, 1466601588, 482800344, 1428544866, 179422068, 1456086373, 21223974, 326057508, 576104823, 1579220583, 1610499936, 1102169172, 1804571061, 47284798, 1317576248, 1558171355 >>) @@
    (<<2024, 51, 42>> :> << 433944986, 546838008, 494605346, 1522350311, 935800812, 2034011362, 1200158222, 1884099816, 689627393, 388833038, 18086278, 492654097, 1371958003, 654966293, 497705399, 1095738543, 1361166288, 784258556, 179013276, 190869738, 331160402, 93023207, 979332271, 2023226333, 1599522761, 775816581, 167210875, 935983269, 1706804598, 247210277, 1063191785, 263093320, 1557192769, 333997352, 793802443, 1642625914, 994071971, 1874401057, 879527565, 2115833647, 1901451699, 1967441132, 232672241, 41215259, 606378485, 307726716, 716855450, 1025277136 >>) @@
    (<<2024, 52, 5>> :> << 2072407083, 397372912, 1440322184, 1235099049, 1661348996, 516891740, 1611151449, 1799137769, 83229705, 390956669, 597991016, 1761872798, 207549710, 1127265991, 2025166014, 667332599, 21955706, 463603439, 788345965, 2019232234, 1631223173, 1409519446, 1838460350, 78198568, 1408416066, 1501250745, 861187637, 1208351433, 2123672281, 1793598082, 359164946, 301298026, 36497336, 1487974223, 1123404875, 1184259836, 480031673, 475649201, 807732039, 540596495, 2063158980, 1665658867, 1736680593, 805359901, 1008687070, 538640662, 2074173769, 1335878658 >>) @@
    (<<2024, 52, 42>> :> << 2070136968, 784766013, 2043713932, 567228812, 1162091073, 768902700, 2006666725, 210005761, 191132884, 589911015, 2013180094, 14598949, 883080170, 921295357, 752034134, 1225549471, 768034698, 900139451, 1147277523, 180635810, 1147278131, 821392618, 214664340, 406667484, 305838150, 1705508735, 897122022, 66929417, 386111412, 1631021691, 2137067590, 713475117, 1955277350, 1031144042, 1176195910, 1921955480, 1378597930, 1615946382, 391473814, 1507740689, 460920432, 1820829700, 1170329563, 1352401939, 31827654, 891152720, 1680140010, 1049743611 >>) @@
    (<<2025, 1, 5>> :> << 1386027425, 1990777878, 1999422049, 1924169775, 1252362335, 399167555, 450030560, 336528708, 1779455860, 1790440396, 1222749091, 720712880, 1864300093, 30666204, 2056068002, 959094896, 897325086, 522273277, 1459897242, 203822872, 441026705, 535232545, 781544957, 1226576307, 1797527735, 1688823286, 227784803, 1571215804, 1579609158, 75772893, 1809211443, 660907405, 1621710794, 1664792608, 186029500, 309617238, 1519655495, 1719111671, 522601190, 306243055, 799240998, 1646237607, 1703420947, 2034361473, 779043027, 339268979, 176370587, 263063689 >>) @@
    (<<2025, 1, 42>> :> << 2102770852, 556879502, 1493271988, 1430730439, 1603451935, 1598348841, 1320358948, 441045676, 1499869898, 1622024263, 203490473, 748839226, 1802626862, 1226662159, 464449370, 1234722081, 571768548, 1344171568, 1558728570, 2098903702, 350959685, 1251984662, 514014984, 1911603868, 2083229293, 1092746951, 848959145, 1913190707, 1837330123, 1023636881, 45602770, 406502931, 407632516, 1065125318, 1876819178, 1595908554, 2049406202, 964380186, 1068803028, 501840602, 794940692, 261709006, 1787392659, 1814281213, 364633376, 1922715947, 2034139657, 1701305596 >>) @@
    (<<2025, 2, 5>> :> << 720542905, 857922824, 967226859, 51695170, 474389293, 130981047, 203479873, 371403550, 2071744011, 1625453349, 40947668, 318757425, 1376152692, 106555273, 670417585, 1037132679, 1480670963, 1709004686, 310157754, 1014602791, 429736335, 935983457, 1274755448, 4432070, 1008273454, 735928475, 1757708995, 2079572898, 1986964613, 1105009551, 324048575, 1402597724, 803598540, 80889870, 1151478371, 443977120, 974259392, 1842083712, 1223058913, 192814655, 346056117, 6417495, 2106347479, 1086026654, 1335088777, 1080828350, 126500675, 204396198 >>) @@
    (<<2025, 2, 42>> :> << 148769864, 342352215, 1129705928, 1454517131, 1036828197, 903344657, 1002886262, 2084486869, 1983370679, 924872653, 593827601, 356963496, 986765716, 1884420615, 1208446169, 1175927427, 964678874, 943341646, 1376735218, 1104010821, 1402615985, 1307537545, 1641902547, 1171554755, 1305158335, 1898351295, 1553000511, 358776467, 651323896, 2014155817, 1861671838, 1762077896, 1871685692, 1481801720, 1165817977, 1085493438, 762545730, 524951395, 396765646, 1084678143, 924208074, 625325794, 746438116, 1725221830, 378733488, 906497737, 3606135, 1924519326 >>) @@
    (<<2025, 3, 5>> :> << 348077907, 1021478870, 272577341, 1627623449, 1614000502, 1060163755, 1252077140, 2042186041, 92348998, 342297067, 1154870886, 808355676, 936015991, 1026324322, 725189157, 1529728372, 112690642, 619662462, 408363883, 618829111, 1546189657, 348753348, 2106267007, 562164008, 1370482346, 155657636, 670794428, 645470233, 1645786471, 981537821, 471405009, 1102791459, 2034661618, 881465265, 1652853607, 1797089328, 933214786, 2131448352, 1957616045, 734667375, 235059756, 1101215025, 1698675456, 1968439733, 1835381122, 488527787, 1569930434, 1260817046 >>) @@
    (<<2025, 3, 42>> :> << 1905695495, 1737379751, 1074730739, 743463075, 121614033, 391253152, 1537635917, 1191101368, 1516312230, 941626131, 43940690, 239751624, 671854097, 1588062957, 1421517211, 1308808020, 2141563889, 1869973690, 877079226, 1573167762, 115254099, 381380633, 500449936, 927088156, 1514776778, 302799219, 708258345, 753834066, 980565807, 1794726758, 415301996, 1486779560, 526325649, 446855000, 774402237, 1703179799, 1787568715, 1854186246, 1351067448, 2098072060, 1049845820, 1164250034, 699427640, 1977728929, 112731101, 731812356, 1415706321, 1081713353 >>) @@
    (<<2025, 9, 11>> :> << 1713831253, 1758679784, 1265294106, 557546228, 904174317, 1253119790, 835847112, 754427514, 1594714921, 1545545647, 1628097959, 1290949180, 1311846828, 1384193190, 1542006194, 416156737, 2068103913, 1267129274, 259510350, 261049298, 1486131919, 1336711557, 239933675, 1786378133, 1812824939, 220327125, 1144740356, 2020944693, 639444010, 999766666, 1946776582, 593743486, 1462574347, 784242264, 902418343, 187422720, 1539114684, 1847863624, 1535734954, 1430582600, 1236159069, 1269899699, 564253791, 340684936, 2142717301, 821933950, 315408564, 1740284562 >>) @@
    (<<2025, 10, 11>> :> << 2081680678, 2015724453, 1630839844, 1279060969, 1466788833, 872578137, 358500235, 342233455, 1469213577, 879880698, 1512989190, 1174848278, 1172808469, 1049607415, 745795626, 492756481, 2075616744, 1120313296, 250394483, 1772094178, 1649493298, 1141082468, 1372485475, 976516816, 379438099, 451826841, 645730251, 448069071, 908327140, 851014836, 2105340189, 2145209683, 1667998362, 717098739, 1362370399, 37147153, 1800566911, 827357801, 902987051, 201491443, 257949687, 1704919417, 1303362188, 132086008, 1725454075, 906379113, 598180816, 1442370140 >>) @@
    (<<2025, 11, 11>> :> << 1439731091, 810588788, 1682341068, 203390902, 330342596, 1420020730, 575622648, 123181039, 1794210985, 1294431662, 1728944053, 1022596338, 394933718, 1962869091, 1775106959, 167790231, 60968933, 783647591, 669011750, 1786803971, 1555297745, 1647300167, 615118238, 1767558003, 205058725, 837825341, 1711437999, 967149727, 385004157, 1761641507, 329775094, 1940614589, 1176262113, 197073868, 1347052230, 1999043588, 716195222, 946139966, 1002191432, 1020009188, 895274523, 1178366052, 448894813, 781935380, 887466186, 772905660, 1416914912, 493165503 >>) @@
    (<<2025, 12, 11>> :> << 1147387886, 1900110685, 1021090114, 800827473, 1185545895, 1544997119, 1315310315, 953552986, 98676999, 859789394, 798149361, 666874388, 1393545315, 988189704, 973130965, 2014996611, 1207847191, 237320237, 758028771, 912678038, 697713553, 1999306943, 479792203, 1364870457, 2086682823, 1746957310, 356189103, 1939131583, 641118565, 1644597913, 99633874, 463946230, 1532218835, 1970253197, 1780400688, 142666872, 2132741554, 963540804, 1399969225, 36372509, 1818844462, 1627520272, 1538376055, 1611737122, 1956861779, 1332625522, 999547610, 227072928 >>) @@
    (<<2025, 13, 11>> :> << 948002493, 747661301, 1660107757, 524521300, 1493560226, 1477209066, 984104375, 911857773, 760716922, 325064580, 1773569534, 1315314995, 71231096, 2026250399, 1704018858, 1842326695, 581314526, 1194457659, 1552095639, 1011460716, 398428880, 2117307692, 658717675, 394853958, 746697423, 68338148, 1420183495, 1225746586, 901125151, 352382381, 207470761, 1271379337, 1535710024, 279337945, 909004444, 91291743, 90458945, 81700492, 538801168, 485461025, 201107903, 600084718, 776486687, 815541424, 1286303762, 2049772438, 641216109, 1254251126 >>)

\* the next word of the stream, shifted right by one bit
Word31(r) == MTWords[<< r[1], r[2], r[3] >>][r[4] + 1]

\* the state after one word has been drawn
RngStep(r) == << r[1], r[2], r[3], r[4] + 1 >>

\* random.Random(seed) with an integer seed
SeedInt(seed) == << 0, 0, seed, 0 >>

\* rng.seed(f"wk-{year}-{week}-{seed}")
SeedWeek(year, week, seed) == << year, week, seed, 0 >>

RECURSIVE Pow2(_)
Pow2(k) == IF k = 0 THEN 1 ELSE 2 * Pow2(k - 1)

\* n.bit_length()
RECURSIVE BitLength(_)
BitLength(n) == IF n = 0 THEN 0 ELSE 1 + BitLength(n \div 2)

\* getrandbits(k) of the j-th word of the stream of r, k <= 31: its k highest bits
BitsAt(r, j, k) == MTWords[<< r[1], r[2], r[3] >>][j] \div Pow2(31 - k)

\* _randbelow(n), n >= 1: getrandbits(n.bit_length()) is drawn until the value is
\* below n, so the value is that of the first word from the position of r on
\* whose highest bits are below n, and the words before it are used up.
RandBelow(r, n) ==
    LET last == Len(MTWords[<< r[1], r[2], r[3] >>])
        j == CHOOSE j \in (r[4] + 1) .. last :
                /\ BitsAt(r, j, BitLength(n)) < n
                /\ \A i \in (r[4] + 1) .. (j - 1) : BitsAt(r, i, BitLength(n)) >= n
    IN  << BitsAt(r, j, BitLength(n)), << r[1], r[2], r[3], j >> >>

\* rng.randint(a, b), for a <= b
RandInt(r, a, b) ==
    LET d == RandBelow(r, b - a + 1)
    IN  << a + d[1], d[2] >>

\* random() is (A * 2^26 + B) / 2^53, A the 27 highest bits of one word and B
\* the 26 highest bits of the next.
RandomA(r) == Word31(r) \div 16
RandomB(r) == Word31(RngStep(r)) \div 32

\* rng.random() < p, with p in hundredths: the double p/100 is T / 2^53 with
\* T = TA * 2^26 + TB, and the draw is below it iff (A, B) < (TA, TB).
RandomBelowP(r, p) ==
    LET rem == (p * 28) % 100
        TA == p * 1342177 + (p * 28) \div 100
        TB == rem * 671088 + (rem * 64 + 50) \div 100
        A == RandomA(r)
        B == RandomB(r)
    IN  << A < TA \/ (A = TA /\ B < TB), RngStep(RngStep(r)) >>

\* round(rng.uniform(a, b), 2) in hundredths, a and b in hundredths:
\* a + (b - a) * random(), rounded to the nearest hundredth, a tie to the even
\* one.  The quotient by 2^28 of 2(b-a)A + 2(b-a)B / 2^26 + 2^27 is taken
\* in two halves.
UniformRound2(r, a, b) ==
    LET A == RandomA(r)
        B == RandomB(r)
        D2 == 2 * (b - a)
        cn == D2 * (B \div 8192) + (D2 * (B % 8192)) \div 8192
        exactB == cn % 8192 = 0 /\ (D2 * (B % 8192)) % 8192 = 0
        lo == D2 * (A % 16384) + 134217728 + cn \div 8192
        hi == D2 * (A \div 16384) + lo \div 16384
        tie == exactB /\ hi % 16384 = 0 /\ lo % 16384 = 0
        v == a + hi \div 16384
    IN  << IF tie /\ v % 2 = 1 THEN v - 1 ELSE v, RngStep(RngStep(r)) >>

\* new_id(prefix), given the value u of uuid.uuid4().hex[:8]
new_id(prefix, u) == << prefix, u >>

(***************************************************************************)
(* Timestamps.  iso(dt) is kept as (year, month, day, hour, minute): all   *)
(* timestamps carry the same +08:00 offset.                                *)
(***************************************************************************)
iso(n, hour, minute) == << YearOf(n), MonthOf(n), DayOf(n), hour, minute >>

\* datetime.fromisoformat(ts) back to the ordinal of its date
TsOrd(ts) == Ymd2Ord(ts[1], ts[2], ts[3])

\* ts1 <= ts2 in time
TsLeq(t1, t2) ==
    LET a == TsOrd(t1) * 1440 - 738000 * 1440 + t1[4] * 60 + t1[5]
        b == TsOrd(t2) * 1440 - 738000 * 1440 + t2[4] * 60 + t2[5]
    IN  a <= b

\* f"{x}" of a float held in hundredths: 1.0, 1.2, 0.87
FmtHundredths(h) ==
    IF h % 10 = 0
    THEN << ToString(h \div 100), ".", ToString((h % 100) \div 10) >>
    ELSE << ToString(h \div 100), ".", ToString((h % 100) \div 10), ToString(h % 10) >>


(***************************************************************************)
(* State.                                                                  *)
(***************************************************************************)
VARIABLES
    cfg,                    \* the configuration document of the process
    pc,                     \* position of the process in main() / run()
    err,                    \* the exception that ended the process, or "none"
    start, end,             \* self.start, self.end (ordinals)
    rng,                    \* self.rng
    messages, decisions, tests,
    internal_hours,         \* per role, tenths of an hour
    last_exercise_update,
    travel_weeks,
    current, week_idx,      \* locals of run()
    weekly_threads,         \* local of run(): the quota last computed
    threads_today,          \* local of run(): threads drawn for the day
    threads_left,           \* iterations left of the loop over range(threads_today)
    frame,                  \* locals of the event generator in progress
    exported,               \* the files of data/generated
    runs                    \* processes started so far

vars ==
    << cfg, pc, err, start, end, rng, messages, decisions, tests, internal_hours,
       last_exercise_update, travel_weeks, current, week_idx, weekly_threads,
       threads_today, threads_left, frame, exported, runs >>

simState == << start, end, rng, last_exercise_update, travel_weeks >>
records == << messages, decisions, tests, internal_hours >>
walker == << current, week_idx, weekly_threads, threads_today, threads_left >>

NoFrame ==
    [ tag |-> "", msg_id |-> <<>>, dec_id |-> <<>>, test_id |-> <<>>, title |-> <<>>,
      apoB |-> 0, hsCRP |-> 0, fpg |-> 0 ]

\* metrics.json: internal_hours (in tenths of an hour) and the three counts
Metrics(hours, msgs, decs, tsts) ==
    [ internal_hours |-> hours, message_count |-> Len(msgs),
      decision_count |-> Len(decs), test_count |-> Len(tsts) ]

\* The files main() writes, in the order it writes them.
ExportFiles == << "messages.jsonl", "decisions.jsonl", "tests.jsonl", "metrics.json" >>

\* metrics.json when it holds no complete document
NoMetrics == Metrics([ r \in HourRoles |-> 0 ], <<>>, <<>>, <<>>)

\* data/generated before any process has run: the complete lines of the three
\* .jsonl files, the document of metrics.json, the files that exist, those that
\* end in a cut line, and whether the last export went through
NoExport ==
    [ messages |-> <<>>, decisions |-> <<>>, tests |-> <<>>,
      metrics |-> NoMetrics,
      files |-> {}, cut |-> {}, written |-> FALSE ]

(***************************************************************************)
(* uuid.uuid4().hex[:8].  uuid4 reads the operating system's entropy at    *)
(* each call: the value depends on no state of the process and on no seed, *)
(* so a draw is a choice among all values.  The program never looks into   *)
(* an id and two ids of different prefixes always differ, so a draw is     *)
(* told from another only by which ids of its own prefix it equals: a      *)
(* value not seen before under the prefix is written as the least number   *)
(* not yet in use, and the other outcomes are the values already issued.   *)
(***************************************************************************)
\* the uuid parts of the ids of a list of records
HexOf(list) == { list[i].id[2] : i \in DOMAIN list }

\* the records of one kind held by the process
ListOf(prefix) ==
    CASE prefix = "MSG" -> messages
      [] prefix = "DEC" -> decisions
      [] prefix = "TST" -> tests

\* the complete lines of the file of data/generated that holds that kind
FileOf(prefix) ==
    CASE prefix = "MSG" -> exported.messages
      [] prefix = "DEC" -> exported.decisions
      [] prefix = "TST" -> exported.tests

\* draws that returned a value already issued under the prefix
RepeatsIn(list) == Len(list) - Cardinality(HexOf(list))

\* repeated ids so far, in the records of the process and in the files left by
\* the process before it
Repeats ==
    RepeatsIn(messages) + RepeatsIn(decisions) + RepeatsIn(tests)
    + RepeatsIn(exported.messages) + RepeatsIn(exported.decisions)
    + RepeatsIn(exported.tests)

\* the outcomes of uuid.uuid4().hex[:8] for the next id of a prefix: a value new
\* to the records and the files, or (explored for the first MaxClashIds ids of the
\* prefix and MaxRepeats times) a value an earlier id of the process has
Uuid4Hex8(prefix) ==
    LET seen == HexOf(ListOf(prefix)) \cup HexOf(FileOf(prefix))
        fresh == CHOOSE n \in 0 .. Cardinality(seen) :
                    /\ n \notin seen
                    /\ \A m \in 0 .. (n - 1) : m \in seen
    IN  { fresh }
        \cup (IF Len(ListOf(prefix)) < MaxClashIds /\ Repeats < MaxRepeats
              THEN HexOf(ListOf(prefix))
              ELSE {})

Init ==
    /\ cfg \in Configs
    /\ pc = "new"
    /\ err = "none"
    /\ start = 0 /\ end = 0 /\ rng = << 0, 0, 0, 0 >>
    /\ messages = <<>> /\ decisions = <<>> /\ tests = <<>>
    /\ internal_hours = [ r \in HourRoles |-> 0 ]
    /\ last_exercise_update = 0
    /\ travel_weeks = {}
    /\ current = 0 /\ week_idx = 0
    /\ weekly_threads = 0 /\ threads_today = 0 /\ threads_left = 0
    /\ frame = NoFrame
    /\ exported = NoExport
    /\ runs = 1

Has(k) == k \in DOMAIN cfg

Raise(e) == pc' = "error" /\ err' = e

(***************************************************************************)
(* ElyxSimulator.__init__                                                  *)
(***************************************************************************)
\* Mutant: a month is counted as four weeks.
EndOfWeeks(s, months) == s + 28 * months

\* self.end = self.start + timedelta(days=30*self.months)
EndOf(s, months) == s + 30 * months

Construct ==
    /\ pc = "new"
    /\ IF ~Has("start_date")
       THEN /\ Raise("KeyError")
            /\ UNCHANGED << simState, records >>
       ELSE IF ~ValidDate(cfg["start_date"])
       THEN /\ Raise("ValueError")
            /\ UNCHANGED << simState, records >>
       ELSE IF ~Has("months") \/ ~Has("seed")
       THEN /\ Raise("KeyError")
            /\ UNCHANGED << simState, records >>
       ELSE /\ start' = Ymd2Ord(cfg["start_date"][1], cfg["start_date"][2], cfg["start_date"][3])
            /\ end' = EndOf(start', cfg["months"])
            /\ rng' = SeedInt(cfg["seed"])
            /\ messages' = <<>> /\ decisions' = <<>> /\ tests' = <<>>
            /\ internal_hours' = [ r \in HourRoles |-> 0 ]
            /\ last_exercise_update' = start'
            /\ travel_weeks' = {}
            /\ pc' = "constructed"
            /\ UNCHANGED err
    /\ UNCHANGED << cfg, walker, frame, exported, runs >>

(***************************************************************************)
(* ElyxSimulator.run: locals and the travel-week pre-pass                  *)
(***************************************************************************)
RunBegin ==
    /\ pc = "constructed"
    /\ IF Has("diagnostic_panel_months") /\ Has("adherence_probability")
          /\ Has("max_member_threads_per_week")
       THEN pc' = "prepass" /\ UNCHANGED err
       ELSE Raise("KeyError")
    /\ current' = start
    /\ week_idx' = 0
    /\ UNCHANGED << cfg, simState, records, weekly_threads, threads_today, threads_left,
                    frame, exported, runs >>

\* week_idx % travel_week_every_n_weeks == 3
IsTravelIndex(idx, n) == idx % n = 3

PrePassStep ==
    /\ pc = "prepass"
    /\ current < end
    /\ IF ~Has("travel_week_every_n_weeks")
       THEN Raise("KeyError") /\ UNCHANGED << travel_weeks, current, week_idx >>
       ELSE IF cfg["travel_week_every_n_weeks"] = 0
       THEN Raise("ZeroDivisionError") /\ UNCHANGED << travel_weeks, current, week_idx >>
       ELSE /\ travel_weeks' =
                 IF IsTravelIndex(week_idx, cfg["travel_week_every_n_weeks"])
                 THEN travel_weeks \cup { IsoYearWeek(current) }
                 ELSE travel_weeks
            /\ current' = current + 7
            /\ week_idx' = week_idx + 1
            /\ UNCHANGED << pc, err >>
    /\ UNCHANGED << cfg, start, end, rng, last_exercise_update, records, weekly_threads,
                    threads_today, threads_left, frame, exported, runs >>

PrePassEnd ==
    /\ pc = "prepass"
    /\ ~(current < end)
    /\ current' = start
    /\ pc' = "day"
    /\ UNCHANGED << cfg, err, simState, records, week_idx, weekly_threads, threads_today,
                    threads_left, frame, exported, runs >>


(***************************************************************************)
(* Helpers of the simulator                                                *)
(***************************************************************************)
\* (y, w) in self.travel_weeks, for the day being walked
is_travel == IsoYearWeek(current) \in travel_weeks

\* month_num: calendar months elapsed since start, 1-indexed
month_num(n) == (YearOf(n) - YearOf(start)) * 12 + (MonthOf(n) - MonthOf(start)) + 1

\* Mutant: the (year, week) tuple is compared with a list, which never matches.
count_week_member_threads_nomatch(msgs, year, week) ==
    Cardinality({ i \in DOMAIN msgs :
                    /\ msgs[i].sender_role = "Member"
                    /\ << IsoYearWeek(TsOrd(msgs[i].ts)) >> = << year, week >> })

\* _count_week_member_threads(year, week)
count_week_member_threads(msgs, year, week) ==
    Cardinality({ i \in DOMAIN msgs :
                    /\ msgs[i].sender_role = "Member"
                    /\ IsoYearWeek(TsOrd(msgs[i].ts)) = << year, week >> })

\* Mutant: the quota is drawn from the running stream, without re-seeding.
weekly_member_threads_unseeded(r, year, week, cap, seed) ==
    RandInt(r, 2, cap)

\* Mutant: the quota is drawn from a generator of its own and the running stream
\* moves on by one step.
weekly_member_threads_aside(r, year, week, cap, seed) ==
    << RandInt(SeedWeek(year, week, seed), 2, cap)[1], RngStep(r) >>

\* _weekly_member_threads(year, week, cap): re-seeds self.rng, then draws.
weekly_member_threads(r, year, week, cap, seed) ==
    RandInt(SeedWeek(year, week, seed), 2, cap)

\* the record built by _emit_message
Message(n, hour, minute, sender_id, to, text, tags, rel, u) ==
    [ id |-> new_id("MSG", u),
      ts |-> iso(n, hour, minute),
      day |-> DayStr(n),
      sender_id |-> sender_id,
      sender_name |-> ROLES[sender_id][1],
      sender_role |-> ROLES[sender_id][2],
      to |-> to,
      text |-> text,
      tags |-> tags,
      related_decision_ids |-> rel ]

\* internal-hours accounting of _emit_message: 6 minutes per message touch
HoursAfterMessage(h, role) ==
    IF role \in DOMAIN h /\ role # "Member" THEN [ h EXCEPT ![role] = @ + 1 ] ELSE h

\* the record built by _emit_decision
Decision(n, hour, minute, actor_id, kind, title, rationale, triggers, effects, u) ==
    [ id |-> new_id("DEC", u),
      ts |-> iso(n, hour, minute),
      actor_id |-> actor_id,
      actor_name |-> ROLES[actor_id][1],
      actor_role |-> ROLES[actor_id][2],
      kind |-> kind,
      title |-> title,
      rationale |-> rationale,
      triggers |-> triggers,
      effects |-> effects ]

\* Mutant: a decision is accounted like a message touch.
HoursAfterDecisionAsTouch(h, role) ==
    IF role \in DOMAIN h THEN [ h EXCEPT ![role] = @ + 1 ] ELSE h

\* internal-hours accounting of _emit_decision: 30 minutes per decision
HoursAfterDecision(h, role) ==
    IF role \in DOMAIN h THEN [ h EXCEPT ![role] = @ + 5 ] ELSE h

\* _emit_message: append, account
EmitMessage(msg) ==
    /\ messages' = Append(messages, msg)
    /\ internal_hours' = HoursAfterMessage(internal_hours, msg.sender_role)

\* _emit_decision: append, account
EmitDecision(dec) ==
    /\ decisions' = Append(decisions, dec)
    /\ internal_hours' = HoursAfterDecision(internal_hours, dec.actor_role)

(***************************************************************************)
(* ElyxSimulator.run: the main pass, one simulated day at a time           *)
(***************************************************************************)
\* while current < end: ... if current.weekday() < 5
DayBegin ==
    /\ pc = "day"
    /\ current < end
    /\ threads_today' = 0
    /\ threads_left' = 0
    /\ pc' = IF Weekday(current) < 5 THEN "quota" ELSE "threads"
    /\ UNCHANGED << cfg, err, simState, records, current, week_idx, weekly_threads,
                    frame, exported, runs >>

\* weekly_threads = self._weekly_member_threads(y, w, max_member_threads)
WeeklyQuota ==
    /\ pc = "quota"
    /\ \E yw \in { IsoYearWeek(current) } :
       LET cap == cfg["max_member_threads_per_week"]
       IN  IF cap < 2
           THEN /\ Raise("ValueError")
                /\ rng' = SeedWeek(yw[1], yw[2], cfg["seed"])
                /\ UNCHANGED weekly_threads
           ELSE \E d \in { weekly_member_threads(rng, yw[1], yw[2], cap, cfg["seed"]) } :
                    /\ weekly_threads' = d[1]
                    /\ rng' = d[2]
                    /\ pc' = "draw"
                    /\ UNCHANGED err
    /\ UNCHANGED << cfg, start, end, last_exercise_update, travel_weeks, records, current,
                    week_idx, threads_today, threads_left, frame, exported, runs >>

\* Mutant: the per-day limit of 2 is left out.
ThreadsUpperUncapped(weekly, count) ==
    IF weekly - count > 0 THEN weekly - count ELSE 0

\* remaining_today = max(0, weekly_threads - count); min(2, remaining_today)
ThreadsUpper(weekly, count) ==
    LET remaining_today == IF weekly - count > 0 THEN weekly - count ELSE 0
    IN  IF remaining_today < 2 THEN remaining_today ELSE 2

\* threads_today = self.rng.randint(0, min(2, remaining_today))
DrawThreadsToday ==
    /\ pc = "draw"
    /\ \E yw \in { IsoYearWeek(current) } :
       \E count \in { count_week_member_threads(messages, yw[1], yw[2]) } :
       \E d \in { RandInt(rng, 0, ThreadsUpper(weekly_threads, count)) } :
          /\ threads_today' = d[1]
          /\ threads_left' = d[1]
          /\ rng' = d[2]
    /\ pc' = "threads"
    /\ UNCHANGED << cfg, err, start, end, last_exercise_update, travel_weeks, records, current,
                    week_idx, weekly_threads, frame, exported, runs >>


(***************************************************************************)
(* _member_reaches_out, one emission per step                              *)
(***************************************************************************)
\* tag, text = self.rng.choice(topics); the Member's outreach message
MemberOutreach ==
    /\ pc = "threads"
    /\ threads_left > 0
    /\ \E u \in Uuid4Hex8("MSG") :
       LET d == RandBelow(rng, Len(topics))
           topic == topics[d[1] + 1]
           msg == Message(current, 9, 0, "M-001", "U-RUBY", topic[2],
                          << topic[1], "member_initiated" >>, <<>>, u)
       IN  /\ rng' = d[2]
           /\ EmitMessage(msg)
           /\ frame' = [ NoFrame EXCEPT !.tag = topic[1], !.msg_id = msg.id ]
    /\ pc' = "mro_route"
    /\ UNCHANGED << cfg, err, start, end, last_exercise_update, travel_weeks, decisions, tests,
                    walker, exported, runs >>

\* the concierge routes to the specialist; the for loop continues unless apoB
MemberRouting ==
    /\ pc = "mro_route"
    /\ \E u \in Uuid4Hex8("MSG") : EmitMessage(Message(current, 9, 10, "U-RUBY", route[frame.tag],
                           << "Routing to ", ROLES[route[frame.tag]][1], " for guidance." >>,
                           << "routing" >>, <<>>, u))
    /\ IF route[frame.tag] = "U-WARREN" /\ frame.tag = "apoB"
       THEN pc' = "mro_decide" /\ UNCHANGED << frame, threads_left >>
       ELSE pc' = "threads" /\ frame' = NoFrame /\ threads_left' = threads_left - 1
    /\ UNCHANGED << cfg, err, simState, decisions, tests, current, week_idx, weekly_threads,
                    threads_today, exported, runs >>

\* triggers of the ApoB plan update: self.messages[-2].id
\* Mutant: the decision cites the routing message, the last one appended.
ApoBTriggerIdsLast(msgs) == << msgs[Len(msgs)].id >>

ApoBTriggerIds(msgs) == << msgs[Len(msgs) - 1].id >>

MemberDecision ==
    /\ pc = "mro_decide"
    /\ \E u \in Uuid4Hex8("DEC") :
       LET dec == Decision(current, 10, 0, "U-WARREN", "plan_update",
                     << "ApoB reduction strategy" >>,
                     << "Elevated ApoB + member interest -> tighten nutrition & add fiber protocol before pharmacotherapy." >>,
                     [ message_ids |-> ApoBTriggerIds(messages), test_ids |-> <<>>,
                       metrics |-> << << "ApoB: elevated" >> >> ],
                     [ plan_changes |-> << << "Increase soluble fiber 10-15g/day" >>,
                                           << "Olive oil for cooking" >>,
                                           << "Repeat panel in 90 days" >> >>,
                       followups |-> << "Nutrition check-in weekly" >> ],
                     u)
       IN  /\ EmitDecision(dec)
           /\ frame' = [ frame EXCEPT !.dec_id = dec.id ]
    /\ pc' = "mro_notify"
    /\ UNCHANGED << cfg, err, simState, messages, tests, walker, exported, runs >>

\* Mutant: the follow-up cites the id under the message prefix.
RelOfMessage(dec_id) == << << "MSG", dec_id[2] >> >>

\* rel of a message that follows a decision: [dec.id]
RelOf(dec_id) == << dec_id >>

MemberFollowup ==
    /\ pc = "mro_notify"
    /\ \E u \in Uuid4Hex8("MSG") : EmitMessage(Message(current, 10, 5, "U-CARLA", "M-001",
                           << "I'll set Javier's plan: more legumes/oats + psyllium. We'll monitor bloating & CGM." >>,
                           << "nutrition" >>, RelOf(frame.dec_id), u))
    /\ frame' = NoFrame
    /\ threads_left' = threads_left - 1
    /\ pc' = "threads"
    /\ UNCHANGED << cfg, err, simState, decisions, tests, current, week_idx, weekly_threads,
                    threads_today, exported, runs >>

(***************************************************************************)
(* _concierge_checkin                                                      *)
(***************************************************************************)
\* if current.weekday() in (0, 3)
ConciergeCheckin ==
    /\ pc = "threads"
    /\ threads_left = 0
    /\ Weekday(current) \in {0, 3}
    /\ \E u \in Uuid4Hex8("MSG") : EmitMessage(Message(current, 11, 0, "U-RUBY", "M-001",
                           << "Weekly check-in: any blockers to the plan? I can help coordinate." >>,
                           << "checkin", "concierge" >>, <<>>, u))
    /\ pc' = "exercise"
    /\ UNCHANGED << cfg, err, simState, decisions, tests, walker, frame, exported, runs >>

NoCheckin ==
    /\ pc = "threads"
    /\ threads_left = 0
    /\ Weekday(current) \notin {0, 3}
    /\ pc' = "exercise"
    /\ UNCHANGED << cfg, err, simState, records, walker, frame, exported, runs >>


(***************************************************************************)
(* _exercise_update                                                        *)
(***************************************************************************)
\* Mutant: the update waits for more than the configured number of days.
ExerciseDueStrict(now, last, days) == now - last > days

\* Mutant: the update is due after a week, whatever the configuration says.
ExerciseDueWeekly(now, last, days) == now - last >= 7

\* (current - self.last_exercise_update).days >= exercise_update_days
ExerciseDue(now, last, days) == now - last >= days

\* Mutant: the travel flag is left out of the adherence outcome.
AdheredAnywhere(below_p, travel) == below_p

\* adhered = self.rng.random() < adherence_p and not is_travel
Adhered(below_p, travel) == below_p /\ ~travel

ExerciseTitle(adhered) ==
    IF adhered THEN << "Progression: increase Zone 2 by +5 min" >>
    ELSE << "Adjustment: maintain volume; add travel-safe routine" >>

ExerciseRationale(adhered) ==
    IF adhered
    THEN << "Consistent adherence & stable HR/HRV trends -> progressive overload." >>
    ELSE << "Low adherence and/or travel constraints -> keep volume steady and add bodyweight set." >>

ExerciseDecision ==
    /\ pc = "exercise"
    /\ Has("exercise_update_days")
    /\ ExerciseDue(current, last_exercise_update, cfg["exercise_update_days"])
    /\ last_exercise_update' = current
    /\ \E u \in Uuid4Hex8("DEC") :
       LET d == RandomBelowP(rng, cfg["adherence_probability"])
           adhered == Adhered(d[1], is_travel)
           dec == Decision(current, 14, 0, "U-RACHEL", "plan_update",
                     ExerciseTitle(adhered), ExerciseRationale(adhered),
                     [ message_ids |-> <<>>, test_ids |-> <<>>,
                       metrics |-> << << "adherence" >>,
                                      << IF is_travel THEN "travel" ELSE "home" >> >> ],
                     [ plan_changes |-> << ExerciseTitle(adhered) >>,
                       followups |-> << "PT check-in in 1 week" >> ],
                     u)
       IN  /\ rng' = d[2]
           /\ EmitDecision(dec)
           /\ frame' = [ NoFrame EXCEPT !.dec_id = dec.id, !.title = dec.title ]
    /\ pc' = "ex_notify"
    /\ UNCHANGED << cfg, err, start, end, travel_weeks, messages, tests, walker,
                    exported, runs >>

ExerciseMessage ==
    /\ pc = "ex_notify"
    /\ \E u \in Uuid4Hex8("MSG") : EmitMessage(Message(current, 14, 10, "U-RACHEL", "M-001",
                           frame.title \o << ". I've pushed it to your app." >>,
                           << "exercise_update" >>, RelOf(frame.dec_id), u))
    /\ frame' = NoFrame
    /\ pc' = "panel"
    /\ UNCHANGED << cfg, err, simState, decisions, tests, walker, exported, runs >>

NoExercise ==
    /\ pc = "exercise"
    /\ Has("exercise_update_days")
    /\ ~ExerciseDue(current, last_exercise_update, cfg["exercise_update_days"])
    /\ pc' = "panel"
    /\ UNCHANGED << cfg, err, simState, records, walker, frame, exported, runs >>

\* self.cfg["simulation"]["exercise_update_days"] is first read here
ExerciseKeyError ==
    /\ pc = "exercise"
    /\ ~Has("exercise_update_days")
    /\ Raise("KeyError")
    /\ UNCHANGED << cfg, simState, records, walker, frame, exported, runs >>

(***************************************************************************)
(* _quarterly_panel                                                        *)
(***************************************************************************)
\* Mutant: the month is not looked at.
PanelDueAnyMonth(n) == DayOf(n) = 10

\* current.day == 10 and month_num in diagnostic_months
PanelDue(n) == DayOf(n) = 10 /\ month_num(n) \in cfg["diagnostic_panel_months"]

\* Mutant: the threshold is strict.
RecommendationAbove(apoB) ==
    IF apoB > 110
    THEN << "Intensify nutrition + discuss pharmacotherapy candidly; recheck in 90 days." >>
    ELSE << "Nutrition-first + fiber protocol; recheck in 90 days." >>

\* rec, chosen by the ApoB threshold
Recommendation(apoB) ==
    IF apoB >= 110
    THEN << "Intensify nutrition + discuss pharmacotherapy candidly; recheck in 90 days." >>
    ELSE << "Nutrition-first + fiber protocol; recheck in 90 days." >>

PanelTest ==
    /\ pc = "panel"
    /\ PanelDue(current)
    /\ \E a \in { RandInt(rng, 90, 115) } :
       \E h \in { UniformRound2(a[2], 50, 200) } :
       \E f \in { RandInt(h[2], 85, 102) } :
       \E u \in Uuid4Hex8("TST") :
       LET test == [ id |-> new_id("TST", u),
                     ts |-> iso(current, 8, 0),
                     panel |-> "Quarterly Panel",
                     summary |-> "Comprehensive biomarkers (ApoB, hsCRP, FPG).",
                     highlights |-> [ ApoB |-> a[1], hsCRP |-> h[1], FPG |-> f[1] ] ]
       IN  /\ rng' = f[2]
           /\ tests' = Append(tests, test)
                  /\ frame' = [ NoFrame EXCEPT !.test_id = test.id, !.apoB = a[1],
                                        !.hsCRP = h[1], !.fpg = f[1] ]
    /\ pc' = "qp_route"
    /\ UNCHANGED << cfg, err, start, end, last_exercise_update, travel_weeks, messages,
                    decisions, internal_hours, walker, exported, runs >>

PanelRouting ==
    /\ pc = "qp_route"
    /\ \E u \in Uuid4Hex8("MSG") : EmitMessage(Message(current, 8, 30, "U-RUBY", "U-WARREN",
                           << "Panel results have arrived; routing for analysis." >>,
                           << "labs" >>, <<>>, u))
    /\ pc' = "qp_decide"
    /\ UNCHANGED << cfg, err, simState, decisions, tests, walker, frame, exported, runs >>

\* triggers of the panel review: self.messages[-1].id
PanelTriggerIds(msgs) == << msgs[Len(msgs)].id >>

PanelDecision ==
    /\ pc = "qp_decide"
    /\ \E u \in Uuid4Hex8("DEC") :
       LET rec == Recommendation(frame.apoB)
           dec == Decision(current, 12, 0, "U-WARREN", "test",
                     << "Quarterly Panel Review" >>,
                     << "Panel shows ApoB=", ToString(frame.apoB), ", hsCRP=" >>
                        \o FmtHundredths(frame.hsCRP)
                        \o << ", FPG=", ToString(frame.fpg), ". " >> \o rec,
                     [ message_ids |-> PanelTriggerIds(messages),
                       test_ids |-> << frame.test_id >>,
                       metrics |-> << << "ApoB:", ToString(frame.apoB) >> >> ],
                     [ plan_changes |-> << rec >>,
                       followups |-> << "Q&A with member", "Nutrition plan tweaks" >> ],
                     u)
       IN  /\ EmitDecision(dec)
           /\ frame' = [ frame EXCEPT !.dec_id = dec.id ]
    /\ pc' = "qp_notify"
    /\ UNCHANGED << cfg, err, simState, messages, tests, walker, exported, runs >>

PanelSummary ==
    /\ pc = "qp_notify"
    /\ \E u \in Uuid4Hex8("MSG") : EmitMessage(Message(current, 12, 15, "U-WARREN", "M-001",
                           << "Your panel is back. ApoB=", ToString(frame.apoB),
                              ". I recommend: " >> \o Recommendation(frame.apoB),
                           << "labs", "summary" >>, RelOf(frame.dec_id), u))
    /\ frame' = NoFrame
    /\ pc' = "advance"
    /\ UNCHANGED << cfg, err, simState, decisions, tests, walker, exported, runs >>

NoPanel ==
    /\ pc = "panel"
    /\ ~PanelDue(current)
    /\ pc' = "advance"
    /\ UNCHANGED << cfg, err, simState, records, walker, frame, exported, runs >>

\* current += timedelta(days=1)
NextDay ==
    /\ pc = "advance"
    /\ current' = current + 1
    /\ pc' = "day"
    /\ UNCHANGED << cfg, err, simState, records, week_idx, weekly_threads, threads_today,
                    threads_left, frame, exported, runs >>

\* the while loop ends: run() returns
RunEnd ==
    /\ pc = "day"
    /\ ~(current < end)
    /\ pc' = "done"
    /\ UNCHANGED << cfg, err, simState, records, walker, frame, exported, runs >>

(***************************************************************************)
(* main(): export, and a later process on the same configuration           *)
(***************************************************************************)
\* data/generated after the first k files have been written by this process:
\* a file written has this run's content, the others are as they were.
ExportedAfter(k) ==
    [ messages |-> IF k >= 1 THEN messages ELSE exported.messages,
      decisions |-> IF k >= 2 THEN decisions ELSE exported.decisions,
      tests |-> IF k >= 3 THEN tests ELSE exported.tests,
      metrics |-> IF k >= 4 THEN Metrics(internal_hours, messages, decisions, tests)
                  ELSE exported.metrics,
      files |-> exported.files \cup { ExportFiles[i] : i \in 1 .. k },
      cut |-> exported.cut \ { ExportFiles[i] : i \in 1 .. k },
      written |-> (k = 4) ]

\* the records main() writes to the k-th file, one line each (metrics.json is
\* written as one text)
LinesOf(k) ==
    CASE k = 1 -> messages
      [] k = 2 -> decisions
      [] k = 3 -> tests
      [] k = 4 -> << Metrics(internal_hours, messages, decisions, tests) >>

\* data/generated when the first k - 1 files are written and the write of the k-th
\* raises: open("w") has emptied the file, n complete lines have reached it and,
\* if cut, the beginning of the next (with all lines there, it is close() that
\* raised).
ExportedTorn(k, n, cut) ==
    [ [ ExportedAfter(k) EXCEPT !.written = FALSE ] EXCEPT
        !.messages = IF k = 1 THEN SubSeq(messages, 1, n) ELSE @,
        !.decisions = IF k = 2 THEN SubSeq(decisions, 1, n) ELSE @,
        !.tests = IF k = 3 THEN SubSeq(tests, 1, n) ELSE @,
        !.metrics = IF k = 4 /\ n = 0 THEN NoMetrics ELSE @,
        !.files = @ \cup { ExportFiles[k] },
        !.cut = IF cut THEN @ \cup { ExportFiles[k] } ELSE @ \ { ExportFiles[k] } ]

\* The characters outside ASCII that the texts of the program hold (the model
\* writes them ' and ->), by the piece of text that holds them.
NonAsciiPieces ==
    ("Rohan: I read about ApoB targets. What's a realistic goal for me?" :> {"U+2019"})
    @@ ("Rohan: Can we swap today's session? Hotel gym is limited." :> {"U+2019"})
    @@ ("I'll set Javier's plan: more legumes/oats + psyllium. We'll monitor bloating & CGM."
          :> {"U+2019"})
    @@ (". I've pushed it to your app." :> {"U+2019"})
    @@ ("Elevated ApoB + member interest -> tighten nutrition & add fiber protocol before pharmacotherapy."
          :> {"U+2192"})
    @@ ("Consistent adherence & stable HR/HRV trends -> progressive overload." :> {"U+2192"})
    @@ ("Low adherence and/or travel constraints -> keep volume steady and add bodyweight set."
          :> {"U+2192"})

NonAsciiOf(text) ==
    UNION { IF text[i] \in DOMAIN NonAsciiPieces THEN NonAsciiPieces[text[i]] ELSE {} :
              i \in DOMAIN text }

\* the characters outside ASCII of the n-th line of the k-th file, written with
\* json.dumps(..., ensure_ascii=False); json.dumps(metrics) escapes them
LineChars(k, n) ==
    CASE k = 1 -> NonAsciiOf(messages[n].text)
      [] k = 2 -> NonAsciiOf(decisions[n].rationale)
      [] k = 3 -> {}
      [] k = 4 -> {}

\* the lines, in the order of writing, that the encoding of the locale cannot
\* encode when it lacks the characters of the set lacking
Unencodable(lacking) ==
    UNION { { << k, n >> : n \in { m \in 1 .. Len(LinesOf(k)) :
                                      LineChars(k, m) \cap lacking # {} } } :
            k \in 1 .. 3 }

\* << k, n >> is written before << j, m >>
WrittenBefore(a, b) == a[1] < b[1] \/ (a[1] = b[1] /\ a[2] <= b[2])

\* mkdir and the four writes all succeed
Export ==
    /\ pc = "done"
    /\ exported' = ExportedAfter(4)
    /\ pc' = "exported"
    /\ UNCHANGED << cfg, err, simState, records, walker, frame, runs >>

\* mkdir, an open or a write raises OSError (the directory name is taken by a
\* file, the disk is full, the file size limit is reached, ...): the files
\* written before stay; a file that could not be opened is as it was; a file
\* whose write failed holds the lines that had reached it.
ExportFails ==
    /\ pc = "done"
    /\ \/ \E k \in 0 .. 3 : exported' = ExportedAfter(k)
       \/ \E k \in 1 .. 4 : \E n \in 0 .. Len(LinesOf(k)) :
          \E cut \in (IF n < Len(LinesOf(k)) THEN BOOLEAN ELSE {FALSE}) :
             exported' = ExportedTorn(k, n, cut)
    /\ Raise("OSError")
    /\ UNCHANGED << cfg, simState, records, walker, frame, runs >>

\* open() takes the encoding of the locale: the first line holding a character
\* that encoding lacks raises UnicodeEncodeError (a ValueError), and the lines
\* written before it reach the file when it is closed.
ExportEncodeError ==
    /\ pc = "done"
    /\ \E lacking \in (SUBSET {"U+2019", "U+2192"}) \ {{}} :
       \E first \in Unencodable(lacking) :
          /\ \A other \in Unencodable(lacking) : WrittenBefore(first, other)
          /\ exported' = ExportedTorn(first[1], first[2] - 1, FALSE)
    /\ Raise("UnicodeEncodeError")
    /\ UNCHANGED << cfg, simState, records, walker, frame, runs >>

\* main() is started again: nothing of the old process survives but the files
\* and the state of the operating system.
Restart ==
    /\ pc = "exported"
    /\ runs < MaxRuns
    /\ runs' = runs + 1
    /\ pc' = "new"
    /\ UNCHANGED << cfg, err, simState, records, walker, frame, exported >>

Next ==
    \/ Construct \/ RunBegin \/ PrePassStep \/ PrePassEnd
    \/ DayBegin \/ WeeklyQuota \/ DrawThreadsToday
    \/ MemberOutreach \/ MemberRouting \/ MemberDecision \/ MemberFollowup
    \/ ConciergeCheckin \/ NoCheckin
    \/ ExerciseDecision \/ ExerciseMessage \/ NoExercise \/ ExerciseKeyError
    \/ PanelTest \/ PanelRouting \/ PanelDecision \/ PanelSummary \/ NoPanel
    \/ NextDay \/ RunEnd \/ Export \/ ExportFails \/ ExportEncodeError \/ Restart

Spec == Init /\ [][Next]_vars

\* The process is single-threaded and every step it takes returns: a step that
\* can be taken is eventually taken.  Progress is checked on walks of one and of two
\* months and on the configurations that fail.
FairInit == Init /\ cfg \in WalkConfigs \cup BadConfigs

FairSpec == FairInit /\ [][Next]_vars /\ WF_vars(Next)


(***************************************************************************)
(* Properties                                                              *)
(***************************************************************************)
Range(seq) == { seq[i] : i \in DOMAIN seq }

\* C1 (determinism): when a second process on the same configuration and seed has
\* finished its run, its message, decision and test sequences equal, record by
\* record and field by field (ids included), those the first process exported.
C1_Determinism ==
    (runs = 2 /\ pc = "done" /\ exported.written) =>
        /\ messages = exported.messages
        /\ decisions = exported.decisions
        /\ tests = exported.tests

\* The ISO weeks in which the Member has sent a member_initiated message.
MemberWeeks ==
    { IsoYearWeek(TsOrd(messages[i].ts)) :
        i \in { j \in DOMAIN messages : messages[j].sender_role = "Member" } }

MemberInitiatedInWeek(yw) ==
    Cardinality({ i \in DOMAIN messages :
                    /\ messages[i].sender_role = "Member"
                    /\ "member_initiated" \in Range(messages[i].tags)
                    /\ IsoYearWeek(TsOrd(messages[i].ts)) = yw })

\* The quota the code computes for a week.
QuotaOf(yw) ==
    weekly_member_threads(rng, yw[1], yw[2], cfg["max_member_threads_per_week"], cfg["seed"])[1]

\* C2 (weekly cap): in every state, for every ISO week, the number of Member-sent
\* member_initiated messages of that week is at most the week's quota, and the
\* quota lies in 2 .. max_member_threads_per_week.
C2_WeeklyCap ==
    \A yw \in MemberWeeks :
        /\ MemberInitiatedInWeek(yw) <= QuotaOf(yw)
        /\ QuotaOf(yw) \in 2 .. cfg["max_member_threads_per_week"]

\* C2 witness: a weekday begins with its week's quota of 3 already used up, and
\* draws no thread.
C2_Witness ==
    /\ pc = "threads"
    /\ Weekday(current) < 5
    /\ threads_today = 0
    /\ weekly_threads = 3
    /\ MemberInitiatedInWeek(IsoYearWeek(current)) = 3

\* C3 (chronological order): a message appended earlier never has a later
\* timestamp than one appended after it.
C3_Chronological ==
    \A i \in DOMAIN messages : \A j \in DOMAIN messages :
        i < j => TsLeq(messages[i].ts, messages[j].ts)

DecisionIds == { decisions[i].id : i \in DOMAIN decisions }

\* C4 (referential integrity): in every state, every id in the
\* related_decision_ids of every message is the id of a decision in the decision
\* sequence; as each emission is a step, this covers the moment of appending.
C4_ReferentialIntegrity ==
    \A i \in DOMAIN messages :
        \A k \in DOMAIN messages[i].related_decision_ids :
            messages[i].related_decision_ids[k] \in DecisionIds

\* C4 witness: the Nutrition follow-up of an ApoB thread and a PT exercise message
\* have both just cited their decisions.
C4_Witness ==
    /\ \E i \in DOMAIN messages :
          messages[i].sender_role = "Nutrition" /\ messages[i].related_decision_ids # <<>>
    /\ Len(messages) > 0
    /\ messages[Len(messages)].sender_role = "PT"
    /\ messages[Len(messages)].related_decision_ids # <<>>

\* C5 (id uniqueness): no two records share an id, and ids carry the prefix of
\* their kind.
C5_UniqueIds ==
    /\ \A i, j \in DOMAIN messages : i # j => messages[i].id # messages[j].id
    /\ \A i, j \in DOMAIN decisions : i # j => decisions[i].id # decisions[j].id
    /\ \A i, j \in DOMAIN tests : i # j => tests[i].id # tests[j].id
    /\ \A i \in DOMAIN messages : messages[i].id[1] = "MSG"
    /\ \A i \in DOMAIN decisions : decisions[i].id[1] = "DEC"
    /\ \A i \in DOMAIN tests : tests[i].id[1] = "TST"

MessagesBy(role) == Cardinality({ i \in DOMAIN messages : messages[i].sender_role = role })
DecisionsBy(role) == Cardinality({ i \in DOMAIN decisions : decisions[i].actor_role = role })

\* C6 (accounting): in every state every role bucket holds, in tenths of an hour,
\* 1 per message sent by the role plus 5 per decision authored by it, there is no
\* bucket for the Member, and no step of a run lowers a bucket.
C6_Accounting ==
    /\ [](/\ DOMAIN internal_hours = HourRoles
          /\ \A r \in HourRoles :
                internal_hours[r] = MessagesBy(r) + 5 * DecisionsBy(r))
    /\ [][pc # "new" => \A r \in HourRoles : internal_hours'[r] >= internal_hours[r]]_vars

\* C6 witness: a run has ended in which the Member wrote, Medical and PT both
\* wrote and decided, and Nutrition wrote.
C6_Witness ==
    /\ pc = "done"
    /\ MessagesBy("Member") > 0
    /\ MessagesBy("Medical") > 0 /\ DecisionsBy("Medical") > 1
    /\ MessagesBy("PT") > 0 /\ DecisionsBy("PT") > 0
    /\ internal_hours["Nutrition"] > 0


\* Exercise-update decisions (those of the PT) stamped before ordinal n.
ExerciseDecisionsBefore(n) ==
    { i \in DOMAIN decisions :
        decisions[i].actor_id = "U-RACHEL" /\ TsOrd(decisions[i].ts) < n }

OneTestOn(date) ==
    /\ Len(tests) = 1
    /\ << tests[1].ts[1], tests[1].ts[2], tests[1].ts[3] >> = date

\* C7 as stated (example scenario): the finished run of the example configuration
\* holds exactly one exercise-update decision stamped within the first 14 days, and
\* exactly one test, dated 2024-01-10.
C7_ExampleAsStated ==
    (cfg = ExampleCfg /\ pc = "done") =>
        /\ Cardinality(ExerciseDecisionsBefore(start + 14)) = 1
        /\ OneTestOn(<< 2024, 1, 10 >>)

\* C7 amended: the finished run of the example configuration holds no
\* exercise-update decision stamped within the first 14 days and exactly one within
\* the first 15, stamped 2024-01-15; and exactly one test, dated 2024-01-10.
C7_Example ==
    (cfg = ExampleCfg /\ pc = "done") =>
        /\ ExerciseDecisionsBefore(start + 14) = {}
        /\ Cardinality(ExerciseDecisionsBefore(start + 15)) = 1
        /\ \A i \in ExerciseDecisionsBefore(start + 15) :
              decisions[i].ts = << 2024, 1, 15, 14, 0 >>
        /\ OneTestOn(<< 2024, 1, 10 >>)

\* C7 witness: the run of the example configuration has finished, with its panel
\* and its exercise updates emitted.
C7_Witness ==
    /\ cfg = ExampleCfg
    /\ pc = "done"
    /\ tests # <<>>
    /\ ExerciseDecisionsBefore(end) # {}

\* Week steps i of the pre-pass that lie inside the horizon.
InHorizon(i) == start + 7 * i < end

\* C8 (travel weeks): once the pre-pass is over, among any N consecutive 7-day
\* steps inside the horizon exactly one has its ISO week in the travel-week set,
\* for the configured N >= 1.
C8_EveryNthWeek ==
    (pc \in {"day", "done"} /\ cfg["travel_week_every_n_weeks"] >= 1) =>
        \A k \in 0 .. ((end - start) \div 7) :
            InHorizon(k + cfg["travel_week_every_n_weeks"] - 1) =>
                Cardinality({ i \in k .. (k + cfg["travel_week_every_n_weeks"] - 1) :
                                IsoYearWeek(start + 7 * i) \in travel_weeks }) = 1

\* C9 (configuration errors abort before generation): whenever the process has
\* failed, no message, decision or test has been appended.
C9_AbortBeforeGeneration ==
    (pc = "error" /\ err \in {"KeyError", "ValueError"})
        => (messages = <<>> /\ decisions = <<>> /\ tests = <<>>)

\* C10 (quota does not disturb the run-level stream): the step that computes the
\* week's quota leaves the state of self.rng unchanged.
C10_QuotaLeavesStream ==
    [][pc = "quota" => rng' = rng]_vars


\* The positions of the process inside the main pass of run().
MainPass ==
    { "day", "quota", "draw", "threads", "mro_route", "mro_decide", "mro_notify",
      "exercise", "ex_notify", "panel", "qp_route", "qp_decide", "qp_notify", "advance" }

IsExerciseDecision(d) == d.actor_id = "U-RACHEL"

\* C11 (travel-week effect): every exercise-update decision stamped on a day whose
\* ISO week is in the travel-week set carries the adjustment title, rationale and
\* plan change, never the progression ones, whatever the adherence draw.
C11_TravelNeverProgression ==
    (pc \in MainPass \cup {"done"}) =>
        \A i \in DOMAIN decisions :
            (IsExerciseDecision(decisions[i])
             /\ IsoYearWeek(TsOrd(decisions[i].ts)) \in travel_weeks) =>
                /\ decisions[i].title = << "Adjustment: maintain volume; add travel-safe routine" >>
                /\ decisions[i].effects.plan_changes = << decisions[i].title >>
                /\ decisions[i].rationale # << "Consistent adherence & stable HR/HRV trends -> progressive overload." >>

\* C11 witness: with adherence probability 1 the adherence draw is below it, and an
\* exercise update has just been decided on a travel day.
C11_Witness ==
    /\ pc = "ex_notify"
    /\ is_travel
    /\ cfg["adherence_probability"] = 100
    /\ decisions[Len(decisions)].title = << "Adjustment: maintain volume; add travel-safe routine" >>

IsPanelDecision(d) == d.kind = "test"
IsPanelSummary(m) == m.tags = << "labs", "summary" >>

\* The recommendation text the claim expects for a drawn ApoB.
ExpectedRec(apoB) ==
    IF apoB < 110
    THEN "Nutrition-first + fiber protocol; recheck in 90 days."
    ELSE "Intensify nutrition + discuss pharmacotherapy candidly; recheck in 90 days."

\* C12 (panel threshold): the k-th panel decision and the k-th panel summary
\* message use the pharmacotherapy recommendation iff the ApoB drawn for the k-th
\* test is >= 110, and the nutrition-first one otherwise; every drawn ApoB lies in
\* 90 .. 115.
C12_PanelThreshold ==
    LET pd == SelectSeq(decisions, IsPanelDecision)
        sm == SelectSeq(messages, IsPanelSummary)
    IN  /\ \A k \in DOMAIN tests : tests[k].highlights.ApoB \in 90 .. 115
        /\ Len(pd) <= Len(tests) /\ Len(sm) <= Len(pd)
        /\ \A k \in DOMAIN pd :
              /\ pd[k].effects.plan_changes = << << ExpectedRec(tests[k].highlights.ApoB) >> >>
              /\ pd[k].rationale[Len(pd[k].rationale)] = ExpectedRec(tests[k].highlights.ApoB)
        /\ \A k \in DOMAIN sm :
              sm[k].text[Len(sm[k].text)] = ExpectedRec(tests[k].highlights.ApoB)

\* C12 witness: a panel that drew ApoB = 110, the threshold itself, has been
\* reviewed and summarised.
C12_Witness ==
    /\ pc = "advance"
    /\ tests # <<>>
    /\ tests[Len(tests)].highlights.ApoB = 110
    /\ messages[Len(messages)].tags = << "labs", "summary" >>

\* C13 (the weekly quota is a function of the week): when the quota is computed on
\* a Tuesday..Friday that is not the first day of the run, the previous day
\* computed it for the same ISO week, and the new value equals that one, whatever
\* was drawn and emitted in between.
C13_QuotaPerWeek ==
    [][(pc = "quota" /\ pc' = "draw" /\ Weekday(current) \in 1 .. 4 /\ current > start)
          => weekly_threads' = weekly_threads]_vars

\* C13 witness: the quota has been recomputed late in a week in which the Member
\* has already written, under a cap that leaves the quota a choice.
C13_Witness ==
    /\ pc = "draw"
    /\ Weekday(current) \in 1 .. 4
    /\ current > start
    /\ cfg["max_member_threads_per_week"] >= 3
    /\ MemberInitiatedInWeek(IsoYearWeek(current)) > 0

\* The Member's messages stamped on day n, and those of n's ISO week stamped
\* before day n.
MemberOn(n) ==
    Cardinality({ i \in DOMAIN messages :
                    messages[i].sender_role = "Member" /\ TsOrd(messages[i].ts) = n })

MemberEarlierInWeek(n) ==
    Cardinality({ i \in DOMAIN messages :
                    /\ messages[i].sender_role = "Member"
                    /\ IsoYearWeek(TsOrd(messages[i].ts)) = IsoYearWeek(n)
                    /\ TsOrd(messages[i].ts) < n })

Min2(a) == IF a < 2 THEN a ELSE 2
Max0(a) == IF a > 0 THEN a ELSE 0

\* C16 (per-day member-thread bound): when a day of the walk ends, the number of
\* member threads of that day is at most min(2, quota of the day's week - threads
\* of that week emitted on earlier days), and it is 0 on Saturday and Sunday; the
\* number drawn for the day lies between 0 and that limit and is never exceeded.
C16_DailyBound ==
    /\ (pc = "advance") =>
          IF Weekday(current) >= 5
          THEN MemberOn(current) = 0
          ELSE MemberOn(current)
                 <= Min2(Max0(QuotaOf(IsoYearWeek(current)) - MemberEarlierInWeek(current)))
    /\ (pc \in MainPass \ {"day", "quota", "draw"}) =>
          /\ threads_today \in 0 .. Min2(Max0(weekly_threads - MemberEarlierInWeek(current)))
          /\ Weekday(current) >= 5 => threads_today = 0
          /\ MemberOn(current) <= threads_today

\* C16 witness: two threads were emitted on one weekday, and a weekend day has been
\* processed in the same run.
C16_Witness ==
    /\ pc = "advance"
    /\ Weekday(current) >= 5
    /\ threads_today = 0
    /\ \E n \in start .. current : MemberOn(n) = 2

\* The weekdays before weekday n in n's ISO week, from the start of the walk on.
EarlierWeekdays(n) == { d \in (n - Weekday(n)) .. (n - 1) : d >= start }

\* C20 (repeated draws inside a week): when a weekday of the walk ends, for every
\* earlier weekday of the walk in the same ISO week: if both began with the same
\* number of member threads already emitted in the week, both have the same number
\* of member threads; and if the earlier one had no member thread, this one has
\* none.
C20_SameStartSameDraw ==
    (pc = "advance" /\ Weekday(current) < 5) =>
        \A d1 \in EarlierWeekdays(current) :
            /\ MemberEarlierInWeek(d1) = MemberEarlierInWeek(current)
                  => MemberOn(d1) = MemberOn(current)
            /\ MemberOn(d1) = 0 => MemberOn(current) = 0

\* C20 witness: a weekday drew 0 although the week's quota still had room, and a
\* later weekday of the same week has ended.
C20_Witness ==
    /\ pc = "advance"
    /\ Weekday(current) < 5
    /\ \E d1 \in EarlierWeekdays(current) :
          /\ MemberOn(d1) = 0
          /\ QuotaOf(IsoYearWeek(d1)) - MemberEarlierInWeek(d1) > 0

IsApoBDecision(d) == d.title = << "ApoB reduction strategy" >>
IsApoBOutreach(m) == m.sender_role = "Member" /\ m.tags = << "apoB", "member_initiated" >>
IsPanelRouting(m) == m.tags = << "labs" >>

MessageIds(msgs) == { msgs[i].id : i \in DOMAIN msgs }
TestIds(tsts) == { tsts[i].id : i \in DOMAIN tsts }

\* C17 (decision triggers reference existing records): a decision is created with
\* trigger message ids and test ids of records appended before it; the k-th ApoB
\* plan_update decision cites exactly the k-th ApoB outreach message of the Member
\* and no test; the k-th panel decision cites exactly the k-th test and the k-th
\* panel routing message; exercise decisions cite nothing.
C17_TriggersExist ==
    /\ [][(pc # "new" /\ decisions' # decisions) =>
            /\ Len(decisions') = Len(decisions) + 1
            /\ Range(decisions'[Len(decisions')].triggers.message_ids) \subseteq MessageIds(messages)
            /\ Range(decisions'[Len(decisions')].triggers.test_ids) \subseteq TestIds(tests)]_vars
    /\ [](LET ad == SelectSeq(decisions, IsApoBDecision)
              ao == SelectSeq(messages, IsApoBOutreach)
              pd == SelectSeq(decisions, IsPanelDecision)
              pr == SelectSeq(messages, IsPanelRouting)
          IN  /\ Len(ad) <= Len(ao) /\ Len(pd) <= Len(tests) /\ Len(pd) <= Len(pr)
              /\ \A k \in DOMAIN ad :
                    /\ ad[k].triggers.message_ids = << ao[k].id >>
                    /\ ad[k].triggers.test_ids = <<>>
              /\ \A k \in DOMAIN pd :
                    /\ pd[k].triggers.test_ids = << tests[k].id >>
                    /\ pd[k].triggers.message_ids = << pr[k].id >>
              /\ \A i \in DOMAIN decisions :
                    IsExerciseDecision(decisions[i]) =>
                        /\ decisions[i].triggers.message_ids = <<>>
                        /\ decisions[i].triggers.test_ids = <<>>)

\* C17 witness: an ApoB decision has just been created after a panel decision, and
\* the outreach message it cites has an id other than the routing message's.
C17_Witness ==
    /\ pc = "mro_notify"
    /\ messages[Len(messages) - 1].id # messages[Len(messages)].id
    /\ decisions[Len(decisions)].triggers.message_ids = << messages[Len(messages) - 1].id >>
    /\ \E i \in DOMAIN decisions : IsPanelDecision(decisions[i])

\* The positions of a day that lie after the exercise check.
AfterExerciseCheck == { "ex_notify", "panel", "qp_route", "qp_decide", "qp_notify", "advance" }

\* C14 (exercise cadence): the k-th exercise-update decision is stamped k x N days
\* after start, N the configured exercise_update_days, and the reset timestamp is
\* the day of the last one; once a day's check is over fewer than N days have
\* elapsed since the last update, so the number of updates is the number of
\* multiples of N passed so far; before the check at most N days have elapsed.
C14_ExerciseCadence ==
    (pc \in MainPass \cup {"done"} /\ Has("exercise_update_days")) =>
        LET ed == SelectSeq(decisions, IsExerciseDecision)
            N == cfg["exercise_update_days"]
        IN  /\ \A k \in DOMAIN ed : TsOrd(ed[k].ts) = start + k * N
            /\ last_exercise_update = start + Len(ed) * N
            /\ pc \in AfterExerciseCheck =>
                  /\ current - last_exercise_update < N
                  /\ Len(ed) = (current - start) \div N
            /\ pc \in MainPass \ AfterExerciseCheck => current - last_exercise_update <= N

\* C14 witness: the second exercise update has just been decided.
C14_Witness ==
    /\ pc = "ex_notify"
    /\ Len(SelectSeq(decisions, IsExerciseDecision)) = 2
    /\ last_exercise_update = current

\* The days whose panel check is over.
PanelChecked(n) ==
    \/ n < current
    \/ n = current /\ pc \in {"qp_route", "qp_decide", "qp_notify", "advance"}

TestsOn(n) == Cardinality({ k \in DOMAIN tests : TsOrd(tests[k].ts) = n })

\* C15 (panel schedule): the tests are stamped on days of the walk, one for each
\* day whose panel check is over, whose day of month is 10 and whose count of
\* calendar months since start (from 1) is in diagnostic_panel_months, and none
\* for any other day; only the panel step appends a test, one at a time.
C15_PanelSchedule ==
    /\ [][(pc # "new" /\ tests' # tests) =>
             (pc = "panel" /\ Len(tests') = Len(tests) + 1
              /\ tests = SubSeq(tests', 1, Len(tests)))]_vars
    /\ []((pc \in {"qp_route", "advance", "done"} /\ Has("diagnostic_panel_months")) =>
            /\ \A k \in DOMAIN tests : TsOrd(tests[k].ts) \in start .. current
            /\ \A n \in start .. current :
                  TestsOn(n) =
                    IF /\ PanelChecked(n)
                       /\ DayOf(n) = 10
                       /\ ((YearOf(n) - YearOf(start)) * 12 + (MonthOf(n) - MonthOf(start)) + 1)
                             \in cfg["diagnostic_panel_months"]
                    THEN 1 ELSE 0)

\* C15 witness: the tenth of the first and of the second month have both
\* produced a test.
C15_Witness ==
    /\ pc = "advance"
    /\ Len(tests) = 2
    /\ DayOf(current) = 10

\* The positions at which no generator call is under way.
BetweenGenerators == { "day", "quota", "draw", "threads", "exercise", "panel", "advance", "done" }

Citing(dec_id) == { j \in DOMAIN messages : dec_id \in Range(messages[j].related_decision_ids) }

\* C19 (every decision is cited exactly once): between generator calls, the id of
\* each decision of the sequence is in the related_decision_ids of exactly one
\* message, sent to the Member by Nutrition, PT or Medical.
C19_CitedOnce ==
    (pc \in BetweenGenerators) =>
        \A i \in DOMAIN decisions :
            /\ Cardinality(Citing(decisions[i].id)) = 1
            /\ \A j \in Citing(decisions[i].id) :
                  /\ messages[j].to = "M-001"
                  /\ messages[j].sender_role \in {"Nutrition", "PT", "Medical"}

IsPrefix(s, t) == Len(s) <= Len(t) /\ s = SubSeq(t, 1, Len(s))

\* C18 (the calendar walk terminates): a process started on a valid configuration
\* reaches the end of run(); a day is entered from the pre-pass as start and from
\* the end of a day as the day after, it is processed only if it lies from start
\* (inclusive) to start + 30 x months (exclusive), the day does not change while
\* it is processed, and the run ends at start + 30 x months; during the pass every
\* record sequence is extended at its end only.
C18_WalkTerminates ==
    /\ (pc = "new" /\ cfg \in ValidConfigs) ~> (pc = "done")
    /\ [][/\ (pc = "prepass" /\ pc' = "day") => current' = start
          /\ (pc = "advance") => (pc' = "day" /\ current' = current + 1)
          /\ (pc \in MainPass \ {"advance"}) => current' = current
          /\ (pc = "day" /\ pc' \in MainPass) =>
                (start <= current /\ current < start + 30 * cfg["months"])
          /\ (pc' = "done") => current = start + 30 * cfg["months"]
          /\ (pc \in MainPass) =>
                /\ IsPrefix(messages, messages')
                /\ IsPrefix(decisions, decisions')
                /\ IsPrefix(tests, tests')]_vars

\* C18 witness: a run of two months has ended, at day 60 after start, with
\* records of all three kinds.
C18_Witness ==
    /\ pc = "done"
    /\ cfg \in ValidConfigs
    /\ cfg["months"] = 2
    /\ current = start + 60
    /\ messages # <<>> /\ decisions # <<>> /\ tests # <<>>

====
